---- MODULE Spec2Model ----
(***************************************************************************)
(* Finance-Tracker-Telegram-Bot: the message parser (services/parser.py),  *)
(* its keyword configuration (config/settings.py) and the Transaction      *)
(* record (models/transaction.py).                                         *)
(*                                                                         *)
(* A text is a sequence of one-character strings.  The regular expressions *)
(* of the parser are written out as matchers over such sequences.  An      *)
(* amount (a Python float) is kept exactly, as a decimal mantissa without  *)
(* leading or trailing zeros and a power of ten, so that "1.5jt", "1,5jt"  *)
(* and "1500000" denote the same value and no integer of the model grows   *)
(* with the length of a digit run.                                         *)
(***************************************************************************)
EXTENDS Integers, Sequences, FiniteSets, TLC

\* one call of a static method of MessageParser: its arguments, the clock it
\* reads, the method called and what it returned
VARIABLES text, custom_date, now, pc, result

\* the bot: sheets_manager.connected, the rows of the sheet, the position and
\* the local variables of each handler call, the handler that the event loop
\* is running synchronous code of, and the replies sent so far
VARIABLES connected, sheet, hpc, hvar, running, replies

\* main(): the commands registered with the application, and the callback
\* each update was dispatched to
VARIABLES registered, dispatched

\* the dashboard API: time.time(), _rate_limit_store, the requests admitted
\* so far and the responses sent so far
VARIABLES clock, rate_limit_store, admitted, responses

parserVars == <<text, custom_date, now, pc, result>>

botVars == <<connected, sheet, hpc, hvar, running, replies>>

mainVars == <<registered, dispatched>>

apiVars == <<clock, rate_limit_store, admitted, responses>>

vars == <<parserVars, botVars, mainVars, apiVars>>

----------------------------------------------------------------------------
(* Characters and the character classes of Python's re module.             *)

Digits == <<"0","1","2","3","4","5","6","7","8","9">>

UpperCase ==
    <<"A","B","C","D","E","F","G","H","I","J","K","L","M",
      "N","O","P","Q","R","S","T","U","V","W","X","Y","Z">>

LowerCase ==
    <<"a","b","c","d","e","f","g","h","i","j","k","l","m",
      "n","o","p","q","r","s","t","u","v","w","x","y","z">>

Range(s) == {s[i] : i \in DOMAIN s}

DigitChars == Range(Digits)

UpperChars == Range(UpperCase)

WordChars == Range(Digits) \cup Range(UpperCase) \cup Range(LowerCase) \cup {"_"}

SpaceChars == {" ", "\t", "\n"}

\* \d
IsDigit(c) == c \in DigitChars

\* \s
IsSpace(c) == c \in SpaceChars

\* \w
IsWord(c) == c \in WordChars

\* str.lower() on one character
LowerOf ==
    [c \in UpperChars |-> LowerCase[CHOOSE i \in DOMAIN UpperCase : UpperCase[i] = c]]

LowerChar(c) == IF c \in UpperChars THEN LowerOf[c] ELSE c

\* str.lower()
Lower(t) == [i \in DOMAIN t |-> LowerChar(t[i])]

\* str.replace(',', '.')
ReplaceComma(t) == [i \in DOMAIN t |-> IF t[i] = "," THEN "." ELSE t[i]]

\* the value of the digit c
DigitValOf == [c \in DigitChars |-> (CHOOSE i \in DOMAIN Digits : Digits[i] = c) - 1]

DigitVal(c) == DigitValOf[c]

\* w occurs in t at position p (1-based)
PrefixAt(t, p, w) ==
    /\ p + Len(w) - 1 <= Len(t)
    /\ \A i \in 1..Len(w) : t[p + i - 1] = w[i]

\* a variant of Contains: the keyword must stand as a whole word
Contains_WholeWord(t, w) ==
    \E p \in 1..(Len(t) - Len(w) + 1) :
        /\ \A i \in 1..Len(w) : t[p + i - 1] = w[i]
        /\ (p = 1 \/ t[p - 1] \notin WordChars)
        /\ (p + Len(w) > Len(t) \/ t[p + Len(w)] \notin WordChars)

\* `w in t` for strings
Contains(t, w) ==
    \E p \in 1..(Len(t) - Len(w) + 1) : \A i \in 1..Len(w) : t[p + i - 1] = w[i]

\* the end (exclusive) of the longest run of digits from p on: a greedy \d*
\* started at p
RECURSIVE SkipDigits(_, _)
SkipDigits(t, p) ==
    IF p <= Len(t) /\ IsDigit(t[p]) THEN SkipDigits(t, p + 1) ELSE p

\* the same for \s*
RECURSIVE SkipSpaces(_, _)
SkipSpaces(t, p) ==
    IF p <= Len(t) /\ IsSpace(t[p]) THEN SkipSpaces(t, p + 1) ELSE p

\* \b at position p: exactly one of t[p-1], t[p] is a word character
WordBoundary(t, p) ==
    LET before == p > 1 /\ IsWord(t[p - 1])
        after  == p <= Len(t) /\ IsWord(t[p])
    IN  before # after

\* the least element of a non-empty set of positions: re.search reports the
\* leftmost match
Leftmost(S) == CHOOSE p \in S : \A q \in S : p <= q

----------------------------------------------------------------------------
(* Python values.                                                          *)

None == [tag |-> "None"]

\* float: mant * 10^exp, mant a digit string without leading or trailing
\* zeros; zero is the empty mantissa
Float(mant, exp) == [tag |-> "float", mant |-> mant, exp |-> exp]

Zero == Float(<<>>, 0)

RECURSIVE StripLeadingZeros(_)
StripLeadingZeros(d) ==
    IF d # <<>> /\ Head(d) = "0" THEN StripLeadingZeros(Tail(d)) ELSE d

RECURSIVE Normalise(_, _)
Normalise(d, e) ==
    IF d = <<>> THEN Zero
    ELSE IF d[Len(d)] = "0" THEN Normalise(SubSeq(d, 1, Len(d) - 1), e + 1)
    ELSE Float(d, e)

\* float(s) for s matching \d+\.?\d*
ParseFloat(s) ==
    LET dot  == SkipDigits(s, 1)
        frac == IF dot <= Len(s) THEN SubSeq(s, dot + 1, Len(s)) ELSE <<>>
        int  == SubSeq(s, 1, dot - 1)
    IN  Normalise(StripLeadingZeros(int \o frac), 0 - Len(frac))

\* x * 10^k
Scale(x, k) == IF x = Zero THEN Zero ELSE Float(x.mant, x.exp + k)

\* a variant of Truthy: the test `amount is not None`
Truthy_IsNotNone(x) == x # None

\* bool(x) of an Optional[float]: None and 0.0 are falsy
Truthy(x) == x # None /\ x # Zero

----------------------------------------------------------------------------
(* MessageParser.extract_amount                                            *)

\* the end (exclusive) of a match of \d+\.?\d* started at the digit at p
NumberEnd(t, p) ==
    LET q == SkipDigits(t, p)
    IN  IF q <= Len(t) /\ t[q] = "." THEN SkipDigits(t, q + 1) ELSE q

JT   == <<"j","t">>
JUTA == <<"j","u","t","a">>
K    == <<"k">>
RB   == <<"r","b">>
RIBU == <<"r","i","b","u">>

\* (\d+\.?\d*)\s*(?:jt|juta) matches at p
JutaMatchAt(t, p) ==
    /\ p <= Len(t) /\ IsDigit(t[p])
    /\ LET s == SkipSpaces(t, NumberEnd(t, p))
       IN  PrefixAt(t, s, JT) \/ PrefixAt(t, s, JUTA)

\* (\d+\.?\d*)\s*(?:k\b|rb|ribu) matches at p
RibuMatchAt(t, p) ==
    /\ p <= Len(t) /\ IsDigit(t[p])
    /\ LET s == SkipSpaces(t, NumberEnd(t, p))
       IN  \/ PrefixAt(t, s, K) /\ WordBoundary(t, s + 1)
           \/ PrefixAt(t, s, RB)
           \/ PrefixAt(t, s, RIBU)

\* a variant of AngkaMatchAt: the floor is two digits, \b(\d{2,})\b
AngkaMatchAt_TwoDigits(t, p) ==
    /\ p <= Len(t) /\ IsDigit(t[p])
    /\ WordBoundary(t, p)
    /\ SkipDigits(t, p) - p >= 2
    /\ WordBoundary(t, SkipDigits(t, p))

\* \b(\d{3,})\b matches at p
AngkaMatchAt(t, p) ==
    /\ p <= Len(t) /\ IsDigit(t[p])
    /\ WordBoundary(t, p)
    /\ SkipDigits(t, p) - p >= 3
    /\ WordBoundary(t, SkipDigits(t, p))

\* a variant of extract_amount: the thousands pattern is tried first
extract_amount_RibuFirst(txt) ==
    LET t     == ReplaceComma(Lower(txt))
        juta  == {p \in 1..Len(t) : JutaMatchAt(t, p)}
        ribu  == {p \in 1..Len(t) : RibuMatchAt(t, p)}
        angka == {p \in 1..Len(t) : AngkaMatchAt(t, p)}
        group(p) == SubSeq(t, p, NumberEnd(t, p) - 1)
    IN  IF ribu # {}
        THEN Scale(ParseFloat(group(Leftmost(ribu))), 3)
        ELSE IF juta # {}
        THEN Scale(ParseFloat(group(Leftmost(juta))), 6)
        ELSE IF angka # {}
        THEN LET p == Leftmost(angka)
             IN  ParseFloat(SubSeq(t, p, SkipDigits(t, p) - 1))
        ELSE None

\* a variant of extract_amount: the decimal comma is not normalised
extract_amount_NoComma(txt) ==
    LET t     == Lower(txt)
        juta  == {p \in 1..Len(t) : JutaMatchAt(t, p)}
        ribu  == {p \in 1..Len(t) : RibuMatchAt(t, p)}
        angka == {p \in 1..Len(t) : AngkaMatchAt(t, p)}
        group(p) == SubSeq(t, p, NumberEnd(t, p) - 1)
    IN  IF juta # {}
        THEN Scale(ParseFloat(group(Leftmost(juta))), 6)
        ELSE IF ribu # {}
        THEN Scale(ParseFloat(group(Leftmost(ribu))), 3)
        ELSE IF angka # {}
        THEN LET p == Leftmost(angka)
             IN  ParseFloat(SubSeq(t, p, SkipDigits(t, p) - 1))
        ELSE None

extract_amount(txt) ==
    LET t     == ReplaceComma(Lower(txt))
        juta  == {p \in 1..Len(t) : JutaMatchAt(t, p)}
        ribu  == {p \in 1..Len(t) : RibuMatchAt(t, p)}
        angka == {p \in 1..Len(t) : AngkaMatchAt(t, p)}
        group(p) == SubSeq(t, p, NumberEnd(t, p) - 1)
    IN  IF juta # {}
        THEN Scale(ParseFloat(group(Leftmost(juta))), 6)
        ELSE IF ribu # {}
        THEN Scale(ParseFloat(group(Leftmost(ribu))), 3)
        ELSE IF angka # {}
        THEN LET p == Leftmost(angka)
             IN  ParseFloat(SubSeq(t, p, SkipDigits(t, p) - 1))
        ELSE None

----------------------------------------------------------------------------
(* Config.EXPENSE_KEYWORDS and Config.INCOME_KEYWORDS, in source order.      *)

EXPENSE_KEYWORDS ==
    <<
      [category |-> "Makan", keywords |->
        <<<<"m","a","k","a","n">>, <<"s","a","r","a","p","a","n">>, <<"l","u","n","c","h">>,
          <<"d","i","n","n","e","r">>, <<"n","a","s","i">>, <<"a","y","a","m">>,
          <<"s","o","t","o">>, <<"b","a","k","s","o">>, <<"m","i","e">>,
          <<"k","o","p","i">>, <<"t","e","h">>, <<"m","i","n","u","m">>,
          <<"s","n","a","c","k">>, <<"j","a","j","a","n">>, <<"c","e","m","i","l","a","n">>,
          <<"f","o","o","d">>, <<"g","e","p","r","e","k">>, <<"s","e","b","l","a","k">>,
          <<"w","a","r","t","e","g">>, <<"r","e","s","t","o">>, <<"r","e","s","t","o","r","a","n">>,
          <<"c","a","f","e">>, <<"k","e","d","a","i">>, <<"l","a","p","a","r">>,
          <<"k","e","n","y","a","n","g">>, <<"m","i","n","u","m">>, <<"m","i","n","u","m","a","n">>>>],
      [category |-> "Transport", keywords |->
        <<<<"t","r","a","n","s","p","o","r","t">>, <<"g","r","a","b">>, <<"g","o","j","e","k">>,
          <<"o","j","e","k">>, <<"t","a","x","i">>, <<"a","n","g","k","o","t">>,
          <<"b","u","s">>, <<"b","e","n","s","i","n">>, <<"p","a","r","k","i","r">>,
          <<"t","o","l">>, <<"k","e","r","e","t","a">>, <<"t","r","a","v","e","l">>,
          <<"p","e","r","g","i">>, <<"p","u","l","a","n","g">>>>],
      [category |-> "Belanja", keywords |->
        <<<<"b","e","l","a","n","j","a">>, <<"b","e","l","i">>, <<"b","a","j","u">>,
          <<"c","e","l","a","n","a">>, <<"s","e","p","a","t","u">>, <<"t","a","s">>,
          <<"s","h","o","p","e","e">>, <<"t","o","k","p","e","d">>, <<"t","o","k","o","p","e","d","i","a">>,
          <<"l","a","z","a","d","a">>, <<"b","l","i","b","l","i">>, <<"t","o","k","o">>,
          <<"s","h","o","p","p","i","n","g">>, <<"s","h","o","p">>>>],
      [category |-> "Tagihan", keywords |->
        <<<<"l","i","s","t","r","i","k">>, <<"a","i","r">>, <<"p","d","a","m">>,
          <<"w","i","f","i">>, <<"i","n","t","e","r","n","e","t">>, <<"p","u","l","s","a">>,
          <<"p","a","k","e","t"," ","d","a","t","a">>, <<"t","o","k","e","n">>, <<"b","a","y","a","r">>,
          <<"c","i","c","i","l","a","n">>, <<"a","n","g","s","u","r","a","n">>, <<"p","l","n">>,
          <<"t","a","g","i","h","a","n">>>>],
      [category |-> "Hiburan", keywords |->
        <<<<"n","o","n","t","o","n">>, <<"b","i","o","s","k","o","p">>, <<"f","i","l","m">>,
          <<"g","a","m","e">>, <<"m","a","i","n">>, <<"l","i","b","u","r","a","n">>,
          <<"w","i","s","a","t","a">>, <<"n","e","t","f","l","i","x">>, <<"s","p","o","t","i","f","y">>,
          <<"s","t","e","a","m">>, <<"t","i","k","e","t">>, <<"j","a","l","a","n","-","j","a","l","a","n">>>>],
      [category |-> "Kesehatan", keywords |->
        <<<<"o","b","a","t">>, <<"d","o","k","t","e","r">>, <<"r","u","m","a","h"," ","s","a","k","i","t">>,
          <<"r","s">>, <<"k","l","i","n","i","k">>, <<"v","i","t","a","m","i","n">>,
          <<"a","p","o","t","e","k">>, <<"m","e","d","i","c","a","l">>, <<"c","h","e","c","k","u","p">>,
          <<"b","e","r","o","b","a","t">>, <<"s","a","k","i","t">>>>]
    >>

INCOME_KEYWORDS ==
    <<<<"g","a","j","i">>, <<"t","e","r","i","m","a">>, <<"t","r","a","n","s","f","e","r">>,
      <<"b","o","n","u","s">>, <<"f","r","e","e","l","a","n","c","e">>, <<"p","e","n","d","a","p","a","t","a","n">>,
      <<"d","a","p","a","t">>, <<"m","a","s","u","k">>, <<"b","a","y","a","r","a","n">>,
      <<"h","o","n","o","r">>, <<"u","n","t","u","n","g">>, <<"d","i","t","e","r","i","m","a">>,
      <<"i","n","c","o","m","e">>>>

----------------------------------------------------------------------------
(* MessageParser.detect_category                                           *)

\* `for keyword in keywords: if keyword in t: ...` from the i-th keyword on:
\* some keyword is in t
RECURSIVE AnyKeywordIn(_, _, _)
AnyKeywordIn(t, keywords, i) ==
    /\ i <= Len(keywords)
    /\ (Contains(t, keywords[i]) \/ AnyKeywordIn(t, keywords, i + 1))

\* `for category, keywords in Config.EXPENSE_KEYWORDS.items(): ...` from the
\* i-th entry on: the index of the first entry with a keyword in t, 0 when
\* the loop falls through
RECURSIVE FirstCategoryIn(_, _)
FirstCategoryIn(t, i) ==
    IF i > Len(EXPENSE_KEYWORDS) THEN 0
    ELSE IF AnyKeywordIn(t, EXPENSE_KEYWORDS[i].keywords, 1) THEN i
    ELSE FirstCategoryIn(t, i + 1)

\* the same loop without its return: the last entry with a keyword in t
RECURSIVE LastCategoryIn(_, _)
LastCategoryIn(t, i) ==
    IF i < 1 THEN 0
    ELSE IF AnyKeywordIn(t, EXPENSE_KEYWORDS[i].keywords, 1) THEN i
    ELSE LastCategoryIn(t, i - 1)

\* the entry of EXPENSE_KEYWORDS at a non-zero index, else the default
CategoryAt(i, default) ==
    IF i # 0 THEN <<"expense", EXPENSE_KEYWORDS[i].category>> ELSE <<"expense", default>>

\* a variant of detect_category: the expense categories are scanned before
\* the income keywords
detect_category_ExpenseFirst(txt) ==
    IF FirstCategoryIn(Lower(txt), 1) # 0
    THEN CategoryAt(FirstCategoryIn(Lower(txt), 1), "Lainnya")
    ELSE IF AnyKeywordIn(Lower(txt), INCOME_KEYWORDS, 1) THEN <<"income", "Pemasukan">>
    ELSE <<"expense", "Lainnya">>

\* a variant of detect_category: a later matching category overwrites an
\* earlier one (no return inside the loop)
detect_category_LastCategory(txt) ==
    IF AnyKeywordIn(Lower(txt), INCOME_KEYWORDS, 1) THEN <<"income", "Pemasukan">>
    ELSE CategoryAt(LastCategoryIn(Lower(txt), Len(EXPENSE_KEYWORDS)), "Lainnya")

\* a variant of detect_category: the default returns the loop variable
\* `category`, left at the last key of EXPENSE_KEYWORDS
detect_category_LoopVariableDefault(txt) ==
    IF AnyKeywordIn(Lower(txt), INCOME_KEYWORDS, 1) THEN <<"income", "Pemasukan">>
    ELSE CategoryAt(FirstCategoryIn(Lower(txt), 1),
                    EXPENSE_KEYWORDS[Len(EXPENSE_KEYWORDS)].category)

\* a variant of detect_category: an income keyword sets the type only and
\* the category stays the default
detect_category_IncomeUnlabelled(txt) ==
    IF AnyKeywordIn(Lower(txt), INCOME_KEYWORDS, 1) THEN <<"income", "Lainnya">>
    ELSE CategoryAt(FirstCategoryIn(Lower(txt), 1), "Lainnya")

detect_category(txt) ==
    IF AnyKeywordIn(Lower(txt), INCOME_KEYWORDS, 1) THEN <<"income", "Pemasukan">>
    ELSE CategoryAt(FirstCategoryIn(Lower(txt), 1), "Lainnya")

----------------------------------------------------------------------------
(* datetime: the proleptic Gregorian ordinal of the date (1 = 0001-01-01)  *)
(* and the time of day.  Every datetime of the parser carries tzinfo WIB.  *)

DateTime(ord, h, m, s, us) ==
    [tag |-> "datetime", ord |-> ord, hour |-> h, minute |-> m,
     second |-> s, microsecond |-> us]

OverflowError == [tag |-> "OverflowError"]

IsLeap(y) == y % 4 = 0 /\ (y % 100 # 0 \/ y % 400 = 0)

DaysInMonth(y, m) ==
    IF m = 2 THEN (IF IsLeap(y) THEN 29 ELSE 28)
    ELSE IF m \in {4, 6, 9, 11} THEN 30 ELSE 31

RECURSIVE DaysBeforeMonth(_, _)
DaysBeforeMonth(y, m) ==
    IF m = 1 THEN 0 ELSE DaysBeforeMonth(y, m - 1) + DaysInMonth(y, m - 1)

DaysBeforeYear(y) ==
    (y - 1) * 365 + (y - 1) \div 4 - (y - 1) \div 100 + (y - 1) \div 400

\* date(y, m, d).toordinal()
Ymd2Ord(y, m, d) == DaysBeforeYear(y) + DaysBeforeMonth(y, m) + d

\* a variant of ValidDate: the day is not checked against the month
ValidDate_AnyMonthLength(y, m, d) ==
    /\ y \in 1..9999
    /\ m \in 1..12
    /\ d \in 1..31

\* datetime(year, month, day, ...) accepts the date (else ValueError)
ValidDate(y, m, d) ==
    /\ y \in 1..9999
    /\ m \in 1..12
    /\ d \in 1..DaysInMonth(y, m)

\* timedelta(days=...) raises OverflowError beyond this magnitude
MaxTimedeltaDays == 999999999

RECURSIVE DigitsToInt(_)
DigitsToInt(d) ==
    IF d = <<>> THEN 0
    ELSE 10 * DigitsToInt(SubSeq(d, 1, Len(d) - 1)) + DigitVal(d[Len(d)])

\* now.replace(hour=0, minute=0, second=0) - timedelta(days=int(digits)):
\* the microsecond of now is kept; OverflowError when the timedelta or the
\* resulting date is out of range
MidnightMinusDigits(n, digits) ==
    LET d == StripLeadingZeros(digits)
    IN  IF Len(d) > 9 THEN OverflowError
        ELSE IF n.ord - DigitsToInt(d) < 1 THEN OverflowError
        ELSE DateTime(n.ord - DigitsToInt(d), 0, 0, 0, n.microsecond)

MidnightMinusDays(n, days) ==
    IF n.ord - days < 1 THEN OverflowError
    ELSE DateTime(n.ord - days, 0, 0, 0, n.microsecond)

----------------------------------------------------------------------------
(* MessageParser.INDONESIAN_NUMBERS and parse_indonesian_number            *)

INDONESIAN_NUMBERS ==
    <<[words |-> <<"s","a","t","u">>, num |-> 1],
      [words |-> <<"d","u","a">>, num |-> 2],
      [words |-> <<"t","i","g","a">>, num |-> 3],
      [words |-> <<"e","m","p","a","t">>, num |-> 4],
      [words |-> <<"l","i","m","a">>, num |-> 5],
      [words |-> <<"e","n","a","m">>, num |-> 6],
      [words |-> <<"t","u","j","u","h">>, num |-> 7],
      [words |-> <<"d","e","l","a","p","a","n">>, num |-> 8],
      [words |-> <<"s","e","m","b","i","l","a","n">>, num |-> 9],
      [words |-> <<"s","e","p","u","l","u","h">>, num |-> 10],
      [words |-> <<"s","e","b","e","l","a","s">>, num |-> 11],
      [words |-> <<"d","u","a"," ","b","e","l","a","s">>, num |-> 12]>>

\* str.strip()
Strip(t) ==
    LET keep == {i \in DOMAIN t : ~IsSpace(t[i])}
    IN  IF keep = {} THEN <<>>
        ELSE SubSeq(t, Leftmost(keep), CHOOSE i \in keep : \A j \in keep : j <= i)

\* `for words, num in INDONESIAN_NUMBERS.items(): if t == words: return num`
\* from the i-th entry on; None is returned as 0: the caller tests `if days:`
RECURSIVE NumberOfWords(_, _)
NumberOfWords(t, i) ==
    IF i > Len(INDONESIAN_NUMBERS) THEN 0
    ELSE IF t = INDONESIAN_NUMBERS[i].words THEN INDONESIAN_NUMBERS[i].num
    ELSE NumberOfWords(t, i + 1)

parse_indonesian_number(txt) == NumberOfWords(Strip(Lower(txt)), 1)

----------------------------------------------------------------------------
(* MessageParser.extract_date                                              *)

KEMARIN   == <<"k","e","m","a","r","i","n">>
YESTERDAY == <<"y","e","s","t","e","r","d","a","y">>
HARI      == <<"h","a","r","i">>
YANG      == <<"y","a","n","g">>
LALU      == <<"l","a","l","u">>
DUA       == <<"d","u","a">>
BELAS     == <<"b","e","l","a","s">>
MINGGU    == <<"m","i","n","g","g","u">>
BULAN     == <<"b","u","l","a","n">>
LAST      == <<"l","a","s","t">>
WEEK      == <<"w","e","e","k">>
MONTH     == <<"m","o","n","t","h">>

\* the end (exclusive) of a match of w at p, 0 when there is none
EndOf(t, p, w) == IF PrefixAt(t, p, w) THEN p + Len(w) ELSE 0

\* \bkemarin\b|\byesterday\b : the end of the match at p, 0 when none
KemarinEndAt(t, p) ==
    LET word(w) == PrefixAt(t, p, w) /\ WordBoundary(t, p) /\ WordBoundary(t, p + Len(w))
    IN  IF word(KEMARIN) THEN p + Len(KEMARIN)
        ELSE IF word(YESTERDAY) THEN p + Len(YESTERDAY)
        ELSE 0

\* (?:hari\s*(?:yang\s*)?)?lalu : the end of the match at p, 0 when none
HariLaluEndAt(t, p) ==
    IF PrefixAt(t, p, HARI)
    THEN LET s == SkipSpaces(t, p + Len(HARI))
         IN  IF PrefixAt(t, s, YANG)
             THEN EndOf(t, SkipSpaces(t, s + Len(YANG)), LALU)
             ELSE EndOf(t, s, LALU)
    ELSE EndOf(t, p, LALU)

\* (\d+)\s*(?:hari\s*(?:yang\s*)?)?lalu : the end of the match at p
DaysEndAt(t, p) ==
    IF p <= Len(t) /\ IsDigit(t[p])
    THEN HariLaluEndAt(t, SkipSpaces(t, SkipDigits(t, p)))
    ELSE 0

\* the end of group 1 of the spelled-out pattern at p, 0 when no alternative
\* of (satu|dua|...|sebelas|dua\s+belas) followed by \s+(?:hari...)?lalu
\* matches at p; alternatives are tried in the order of the pattern
IndoWords == [i \in 1..11 |-> INDONESIAN_NUMBERS[i].words]

IndoTailEndAt(t, q) ==
    IF q <= Len(t) /\ IsSpace(t[q]) THEN HariLaluEndAt(t, SkipSpaces(t, q)) ELSE 0

\* the alternatives satu..sebelas from the i-th on: the end of the first
\* one that matches at p with the rest of the pattern behind it, else 0
RECURSIVE IndoWordEndAt(_, _, _)
IndoWordEndAt(t, p, i) ==
    IF i > Len(IndoWords) THEN 0
    ELSE IF PrefixAt(t, p, IndoWords[i]) /\ IndoTailEndAt(t, p + Len(IndoWords[i])) # 0
    THEN p + Len(IndoWords[i])
    ELSE IndoWordEndAt(t, p, i + 1)

\* a variant of DuaBelasEndAt: the pattern has no alternative dua\s+belas
DuaBelasEndAt_Missing(t, p) == 0

\* the last alternative, dua\s+belas
DuaBelasEndAt(t, p) ==
    LET b == SkipSpaces(t, p + Len(DUA))
    IN  IF /\ PrefixAt(t, p, DUA)
           /\ b > p + Len(DUA)
           /\ PrefixAt(t, b, BELAS)
           /\ IndoTailEndAt(t, b + Len(BELAS)) # 0
        THEN b + Len(BELAS)
        ELSE 0

IndoGroupEndAt(t, p) ==
    IF IndoWordEndAt(t, p, 1) # 0 THEN IndoWordEndAt(t, p, 1) ELSE DuaBelasEndAt(t, p)

IndoDaysEndAt(t, p) ==
    IF IndoGroupEndAt(t, p) = 0 THEN 0 ELSE IndoTailEndAt(t, IndoGroupEndAt(t, p))

\* minggu\s*(?:lalu|kemarin)|last\s*week : the end of the match at p
MingguEndAt(t, p) ==
    IF PrefixAt(t, p, MINGGU)
    THEN LET s == SkipSpaces(t, p + Len(MINGGU))
         IN  IF PrefixAt(t, s, LALU) THEN s + Len(LALU) ELSE EndOf(t, s, KEMARIN)
    ELSE IF PrefixAt(t, p, LAST)
    THEN EndOf(t, SkipSpaces(t, p + Len(LAST)), WEEK)
    ELSE 0

\* bulan\s*(?:lalu|kemarin)|last\s*month : the end of the match at p
BulanEndAt(t, p) ==
    IF PrefixAt(t, p, BULAN)
    THEN LET s == SkipSpaces(t, p + Len(BULAN))
         IN  IF PrefixAt(t, s, LALU) THEN s + Len(LALU) ELSE EndOf(t, s, KEMARIN)
    ELSE IF PrefixAt(t, p, LAST)
    THEN EndOf(t, SkipSpaces(t, p + Len(LAST)), MONTH)
    ELSE 0

\* (\d{1,2})[/-](\d{1,2})[/-](\d{4}) at p: the starts of the three groups
\* and the end of the match, <<>> when none.  \d{1,2} takes two digits when
\* two are there: with one, the next character would be a digit, not [/-].
IsDateSep(t, p) == p <= Len(t) /\ t[p] \in {"/", "-"}

IsDigitAt(t, p) == p <= Len(t) /\ IsDigit(t[p])

OneOrTwoEnd(t, p) == IF IsDigitAt(t, p + 1) THEN p + 2 ELSE p + 1

DateGroupsAt(t, p) ==
    IF ~IsDigitAt(t, p) THEN <<>>
    ELSE LET e1 == OneOrTwoEnd(t, p)
         IN  IF ~(IsDateSep(t, e1) /\ IsDigitAt(t, e1 + 1)) THEN <<>>
             ELSE LET e2 == OneOrTwoEnd(t, e1 + 1)
                  IN  IF /\ IsDateSep(t, e2)
                         /\ \A i \in 1..4 : IsDigitAt(t, e2 + i)
                      THEN <<SubSeq(t, p, e1 - 1), SubSeq(t, e1 + 1, e2 - 1),
                             SubSeq(t, e2 + 1, e2 + 4)>>
                      ELSE <<>>

DateEndAt(t, p) ==
    LET g == DateGroupsAt(t, p)
    IN  IF g = <<>> THEN 0 ELSE p + Len(g[1]) + Len(g[2]) + 6

extract_date(txt, n) ==
    LET t     == Lower(txt)
        days  == {p \in 1..Len(t) : DaysEndAt(t, p) # 0}
        indo  == {p \in 1..Len(t) : IndoDaysEndAt(t, p) # 0}
        dates == {p \in 1..Len(txt) : DateEndAt(txt, p) # 0}
        indo_days ==
            IF indo = {} THEN 0
            ELSE LET p == Leftmost(indo)
                 IN  parse_indonesian_number(SubSeq(t, p, IndoGroupEndAt(t, p) - 1))
    IN  IF \E p \in 1..Len(t) : KemarinEndAt(t, p) # 0 THEN MidnightMinusDays(n, 1)
        ELSE IF days # {}
        THEN LET p == Leftmost(days)
             IN  MidnightMinusDigits(n, SubSeq(t, p, SkipDigits(t, p) - 1))
        ELSE IF indo_days # 0 THEN MidnightMinusDays(n, indo_days)
        ELSE IF \E p \in 1..Len(t) : MingguEndAt(t, p) # 0 THEN MidnightMinusDays(n, 7)
        ELSE IF \E p \in 1..Len(t) : BulanEndAt(t, p) # 0 THEN MidnightMinusDays(n, 30)
        ELSE IF dates # {}
        THEN LET g     == DateGroupsAt(txt, Leftmost(dates))
                 day   == DigitsToInt(g[1])
                 month == DigitsToInt(g[2])
                 year  == DigitsToInt(g[3])
             IN  IF ValidDate(year, month, day)
                 THEN DateTime(Ymd2Ord(year, month, day), 0, 0, 0, 0)
                 ELSE None
        ELSE None

----------------------------------------------------------------------------
(* MessageParser.clean_text_from_date and clean_description                *)

\* re.sub(pattern, '', t), the pattern given by ends: ends[p] is the end
\* (exclusive) of its match at p, 0 when it does not match there.  The
\* matches are found left to right in the text as it stands; a match found
\* at p is cut out and the scan goes on at its end.
Cut(t, ends) ==
    LET rest[p \in 1..(Len(t) + 1)] ==
            IF p > Len(t) THEN <<>>
            ELSE IF ends[p] # 0 THEN rest[ends[p]]
            ELSE <<t[p]>> \o rest[p + 1]
    IN  rest[1]

\* the ends of the matches of each pattern in tl (under re.IGNORECASE, the
\* lower-case form of the text)
KemarinEnds(tl) == [p \in DOMAIN tl |-> KemarinEndAt(tl, p)]

DaysEnds(tl) == [p \in DOMAIN tl |-> DaysEndAt(tl, p)]

IndoDaysEnds(tl) == [p \in DOMAIN tl |-> IndoDaysEndAt(tl, p)]

MingguEnds(tl) == [p \in DOMAIN tl |-> MingguEndAt(tl, p)]

BulanEnds(tl) == [p \in DOMAIN tl |-> BulanEndAt(tl, p)]

DateEnds(tl) == [p \in DOMAIN tl |-> DateEndAt(tl, p)]

\* the statements of clean_text_from_date, one re.sub each
CutKemarin(t) == Cut(t, KemarinEnds(Lower(t)))

CutDays(t) == Cut(t, DaysEnds(Lower(t)))

CutIndoDays(t) == Cut(t, IndoDaysEnds(Lower(t)))

CutMinggu(t) == Cut(t, MingguEnds(Lower(t)))

CutBulan(t) == Cut(t, BulanEnds(Lower(t)))

CutDate(t) == Cut(t, DateEnds(t))

clean_text_from_date(txt) ==
    CutDate(CutBulan(CutMinggu(CutIndoDays(CutDays(CutKemarin(txt))))))

\* \d+\.?\d*\s*(?:jt|juta|k|rb|ribu) : the end of the match at p
UnitEndAt(t, p) ==
    IF p <= Len(t) /\ IsDigit(t[p])
    THEN LET s == SkipSpaces(t, NumberEnd(t, p))
         IN  IF PrefixAt(t, s, JT) THEN s + Len(JT)
             ELSE IF PrefixAt(t, s, JUTA) THEN s + Len(JUTA)
             ELSE IF PrefixAt(t, s, K) THEN s + Len(K)
             ELSE IF PrefixAt(t, s, RB) THEN s + Len(RB)
             ELSE EndOf(t, s, RIBU)
    ELSE 0

\* \b\d{3,}\b : the end of the match at p
AngkaEndAt(t, p) == IF AngkaMatchAt(t, p) THEN SkipDigits(t, p) ELSE 0

UnitEnds(tl) == [p \in DOMAIN tl |-> UnitEndAt(tl, p)]

AngkaEnds(tl) == [p \in DOMAIN tl |-> AngkaEndAt(tl, p)]

CutUnits(t) == Cut(t, UnitEnds(Lower(t)))

CutAngka(t) == Cut(t, AngkaEnds(t))

\* re.sub(r'\s+', ' ', t)
CollapseSpaces(t) ==
    LET rest[p \in 1..(Len(t) + 1)] ==
            IF p > Len(t) THEN <<>>
            ELSE IF IsSpace(t[p]) THEN <<" ">> \o rest[SkipSpaces(t, p)]
            ELSE <<t[p]>> \o rest[p + 1]
    IN  rest[1]

TRANSAKSI == <<"T","r","a","n","s","a","k","s","i">>

\* a variant of OrTransaksi: the empty string is returned as it is
OrTransaksi_Identity(t) == t

\* `text if text else 'Transaksi'`
OrTransaksi(t) == IF t # <<>> THEN t ELSE TRANSAKSI

clean_description(txt, amount) ==
    OrTransaksi(Strip(CollapseSpaces(CutAngka(CutUnits(clean_text_from_date(txt))))))

----------------------------------------------------------------------------
(* models.transaction.Transaction and MessageParser.parse_message          *)

Transaction(amount, transaction_type, category, description, date) ==
    [tag |-> "Transaction", amount |-> amount,
     transaction_type |-> transaction_type, category |-> category,
     description |-> description, date |-> date,
     photo_url |-> None, detail |-> None]

\* `extracted or datetime.now(tz=WIB)`, an exception of extract_date escaping
DateOrNow(extracted, n) ==
    IF extracted = OverflowError THEN OverflowError
    ELSE IF extracted # None THEN extracted
    ELSE n

\* the statements of parse_message after the amount is known to be truthy;
\* detected is the pair that detect_category returned
BuildTransaction(amount, detected, description, transaction_date) ==
    IF transaction_date = OverflowError THEN OverflowError
    ELSE Transaction(amount, detected[1], detected[2], description, transaction_date)

\* a variant of parse_message: a date phrase of the text goes before the
\* custom date, which only replaces the clock
parse_message_TextDateFirst(txt, custom, n) ==
    IF ~Truthy(extract_amount(txt)) THEN None
    ELSE BuildTransaction(extract_amount(txt),
                          detect_category(txt),
                          clean_description(txt, extract_amount(txt)),
                          IF custom # None
                          THEN DateOrNow(extract_date(txt, custom), custom)
                          ELSE DateOrNow(extract_date(txt, n), n))

\* n is the value of datetime.now(tz=WIB) during the call; the clock is read
\* only when no custom date is given.  The outcome is a Transaction, None,
\* or the exception that extract_date lets escape.
parse_message(txt, custom, n) ==
    IF ~Truthy(extract_amount(txt)) THEN None
    ELSE BuildTransaction(extract_amount(txt),
                          detect_category(txt),
                          clean_description(txt, extract_amount(txt)),
                          IF custom # None THEN custom
                          ELSE DateOrNow(extract_date(txt, n), n))

----------------------------------------------------------------------------
(* The inputs: a text is made of at most so many tokens of a vocabulary    *)
(* (one vocabulary per concern of the parser), the clock is one of Nows    *)
(* and the custom date of parse_message is absent or one of CustomDates.   *)

MaxAmountTokens == 3

MaxKeywordTokens == 2

MaxDateTokens == 2

MaxDescriptionTokens == 3

AmountTokens ==
    {<<"1">>, <<"0">>, <<"1","0","0">>, <<"9","9">>, <<",">>, <<" ">>,
     <<"k">>, <<"1","j","t">>, <<"1","R","B">>,
     <<"j","u","t","a">>, <<"r","i","b","u">>}

KeywordTokens ==
    {<<"G","a","j","i">>, <<"k","o","p","i">>, <<"o","j","e","k">>,
     <<"B","e","l","i">>, <<"b","a","y","a","r">>, <<"m","a","i","n">>,
     <<"o","b","a","t">>, <<"a","n">>, <<"t","e","r","s","e","r","a","h">>,
     <<"h","a","l","o">>, <<" ">>, <<" ","1","0","0">>}

DateTokens ==
    {<<"k","e","m","a","r","i","n"," ">>,
     <<"Y","e","s","t","e","r","d","a","y"," ">>, <<"3"," ">>,
     <<"9","9","9","9","9","9","9"," ">>, <<"5","0","0"," ">>,
     <<"h","a","r","i"," ","l","a","l","u"," ">>,
     <<"h","a","r","i"," ","y","a","n","g"," ","l","a","l","u"," ">>,
     <<"l","a","l","u"," ">>, <<"d","u","a"," ">>,
     <<"d","u","a"," ","b","e","l","a","s"," ">>,
     <<"d","u","a"," "," ","b","e","l","a","s"," ">>,
     <<"m","i","n","g","g","u"," ">>, <<"b","u","l","a","n"," ">>,
     <<"l","a","s","t"," ","w","e","e","k"," ">>,
     <<"l","a","s","t"," ","m","o","n","t","h"," ">>,
     <<"1","0","/","0","1","/","2","0","2","6"," ">>,
     <<"3","2","-","0","1","-","2","0","2","6"," ">>,
     <<"2","9","/","0","2","/","2","0","2","5"," ">>}

DescriptionTokens ==
    {<<"m","a","k","a","n"," ">>, <<"k","o","p","i"," ">>, <<"3"," ">>,
     <<"5","k"," ">>, <<"l","a","l","u">>,
     <<"k","e","m","a","r","i","n"," ">>, <<"1",",","5","j","t"," ">>,
     <<"2","5","0","0","0"," ">>}

RECURSIVE Flatten(_)
Flatten(tokens) ==
    IF tokens = <<>> THEN <<>> ELSE Head(tokens) \o Flatten(Tail(tokens))

TextsOver(vocabulary, max) ==
    {Flatten(tokens) : tokens \in UNION {[1..k -> vocabulary] : k \in 0..max}}

AmountTexts == TextsOver(AmountTokens, MaxAmountTokens)

KeywordTexts == TextsOver(KeywordTokens, MaxKeywordTokens)

\* each of the twelve number words in a phrase of its own
SpelledOutTexts ==
    {INDONESIAN_NUMBERS[i].words \o tail :
        i \in DOMAIN INDONESIAN_NUMBERS,
        tail \in {<<" ">> \o HARI \o <<" ">> \o LALU,
                  <<" ">> \o HARI \o <<" ">> \o YANG \o <<" ">> \o LALU}}

\* the messages that help_command gives as examples of an earlier day
HelpTexts ==
    {<<"k","e","m","a","r","i","n"," ","m","a","k","a","n"," ","2","5","0","0","0">>,
     <<"2"," ","h","a","r","i"," ","l","a","l","u"," ","b","e","l","i"," ","k","o","p","i"," ","1","5","r","b">>,
     <<"m","i","n","g","g","u"," ","l","a","l","u"," ","b","e","n","s","i","n"," ","5","0","r","b">>,
     <<"1","0","/","0","1","/","2","0","2","6"," ","m","a","k","a","n"," ","2","5","0","0","0">>}

DateTexts ==
    TextsOver(DateTokens, MaxDateTokens) \cup SpelledOutTexts \cup HelpTexts

DescriptionTexts == TextsOver(DescriptionTokens, MaxDescriptionTokens)

\* 2026-01-15 12:34:56.789012 and 2026-03-01 00:00:00 (WIB)
Nows ==
    {DateTime(Ymd2Ord(2026, 1, 15), 12, 34, 56, 789012),
     DateTime(Ymd2Ord(2026, 3, 1), 0, 0, 0, 0)}

\* 2026-01-10 09:30:15 (WIB), as add_past_command builds it
CustomDates == {DateTime(Ymd2Ord(2026, 1, 10), 9, 30, 15, 0)}

----------------------------------------------------------------------------
(* The parser is stateless: a run takes one text and applies one of the    *)
(* static methods to it.  pc names the method that produced result.        *)

\* no handler is running and nothing has been sent or stored
BotIdle ==
    /\ connected = FALSE
    /\ sheet = <<>>
    /\ hpc = <<>>
    /\ hvar = <<>>
    /\ running = 0
    /\ replies = <<>>

\* no update has come in
MainIdle ==
    /\ registered = <<>>
    /\ dispatched = None

\* no request has come in
ApiIdle ==
    /\ clock = 0
    /\ rate_limit_store = <<>>
    /\ admitted = <<>>
    /\ responses = <<>>

InitOver(texts) ==
    /\ text \in texts
    /\ custom_date = None
    /\ now = None
    /\ pc = "ready"
    /\ result = None
    /\ BotIdle
    /\ MainIdle
    /\ ApiIdle

ExtractAmount ==
    /\ pc = "ready"
    /\ pc' = "extract_amount"
    /\ result' = extract_amount(text)
    /\ UNCHANGED <<text, custom_date, now>>
    /\ UNCHANGED <<botVars, mainVars, apiVars>>

DetectCategory ==
    /\ pc = "ready"
    /\ pc' = "detect_category"
    /\ result' = detect_category(text)
    /\ UNCHANGED <<text, custom_date, now>>
    /\ UNCHANGED <<botVars, mainVars, apiVars>>

ExtractDate ==
    /\ pc = "ready"
    /\ \E n \in Nows :
        /\ now' = n
        /\ result' = extract_date(text, n)
    /\ pc' = "extract_date"
    /\ UNCHANGED <<text, custom_date>>
    /\ UNCHANGED <<botVars, mainVars, apiVars>>

CleanDescription ==
    /\ pc = "ready"
    /\ pc' = "clean_description"
    /\ result' = clean_description(text, extract_amount(text))
    /\ UNCHANGED <<text, custom_date, now>>
    /\ UNCHANGED <<botVars, mainVars, apiVars>>

\* clean_description applied to the description it returned
CleanDescriptionAgain ==
    /\ pc = "clean_description"
    /\ pc' = "clean_description_again"
    /\ result' = clean_description(result, extract_amount(text))
    /\ UNCHANGED <<text, custom_date, now>>
    /\ UNCHANGED <<botVars, mainVars, apiVars>>

\* parse_message(text): the clock is read
ParseMessage ==
    /\ pc = "ready"
    /\ \E n \in Nows :
        /\ now' = n
        /\ result' = parse_message(text, None, n)
    /\ pc' = "parse_message"
    /\ UNCHANGED <<text, custom_date>>
    /\ UNCHANGED <<botVars, mainVars, apiVars>>

\* parse_message(text, custom_date=...): the clock is not read
ParseMessageCustom ==
    /\ pc = "ready"
    /\ \E custom \in CustomDates :
        /\ custom_date' = custom
        /\ result' = parse_message(text, custom, now)
    /\ pc' = "parse_message"
    /\ UNCHANGED <<text, now>>
    /\ UNCHANGED <<botVars, mainVars, apiVars>>

\* amounts: extract_amount and parse_message on the amount texts
InitAmount == InitOver(AmountTexts)

NextAmount == ExtractAmount \/ ParseMessage \/ ParseMessageCustom

SpecAmount == InitAmount /\ [][NextAmount]_vars

\* categories: detect_category and parse_message on the keyword texts
InitCategory == InitOver(KeywordTexts)

NextCategory == DetectCategory \/ ParseMessage \/ ParseMessageCustom

SpecCategory == InitCategory /\ [][NextCategory]_vars

\* dates: extract_date and parse_message on the date texts
InitDate == InitOver(DateTexts)

NextDate == ExtractDate \/ ParseMessage \/ ParseMessageCustom

SpecDate == InitDate /\ [][NextDate]_vars

\* descriptions: clean_description, once and twice, extract_amount and
\* parse_message on the description texts
InitDescription == InitOver(DescriptionTexts)

NextDescription ==
    \/ CleanDescription
    \/ CleanDescriptionAgain
    \/ ExtractAmount
    \/ ParseMessage

SpecDescription == InitDescription /\ [][NextDescription]_vars

\* every method on the date texts

Next ==
    \/ ExtractAmount
    \/ DetectCategory
    \/ ExtractDate
    \/ CleanDescription
    \/ CleanDescriptionAgain
    \/ ParseMessage
    \/ ParseMessageCustom

Spec == InitDate /\ [][Next]_vars

----------------------------------------------------------------------------
(* What the properties below say about a text, stated on the text itself   *)
(* (lower-cased, decimal comma read as a point) and not through the        *)
(* matchers of extract_amount.                                             *)

Normalised(txt) == ReplaceComma(Lower(txt))

\* a float above zero
IsPositive(x) == x.tag = "float" /\ x.mant # <<>>

\* t[a..b-1] is a number: digits, then at most one point and more digits
IsNumberSpan(t, a, b) ==
    /\ a < b
    /\ IsDigit(t[a])
    /\ \A i \in a..(b - 1) : IsDigit(t[i]) \/ t[i] = "."
    /\ Cardinality({i \in a..(b - 1) : t[i] = "."}) <= 1

\* only white space stands between b and the word w
FollowedBy(t, b, w) ==
    \E s \in b..(Len(t) + 1) :
        /\ \A r \in b..(s - 1) : IsSpace(t[r])
        /\ PrefixAt(t, s, w)

\* the same for a `k` that ends a word
FollowedByFinalK(t, b) ==
    \E s \in b..Len(t) :
        /\ \A r \in b..(s - 1) : IsSpace(t[r])
        /\ t[s] = "k"
        /\ (s = Len(t) \/ ~IsWord(t[s + 1]))

Spans(t) == {ab \in (1..Len(t)) \X (2..(Len(t) + 1)) : ab[1] < ab[2]}

\* the numbers followed by jt or juta
MillionNumbers(t) ==
    {ab \in Spans(t) :
        /\ IsNumberSpan(t, ab[1], ab[2])
        /\ (FollowedBy(t, ab[2], JT) \/ FollowedBy(t, ab[2], JUTA))}

\* the numbers followed by a word-final k, by rb or by ribu
ThousandNumbers(t) ==
    {ab \in Spans(t) :
        /\ IsNumberSpan(t, ab[1], ab[2])
        /\ \/ FollowedByFinalK(t, ab[2])
           \/ FollowedBy(t, ab[2], RB)
           \/ FollowedBy(t, ab[2], RIBU)}

\* the integers of at least 3 digits that stand as a word
BareIntegers(t) ==
    {ab \in Spans(t) :
        /\ ab[2] - ab[1] >= 3
        /\ \A i \in ab[1]..(ab[2] - 1) : IsDigit(t[i])
        /\ (ab[1] = 1 \/ ~IsWord(t[ab[1] - 1]))
        /\ (ab[2] > Len(t) \/ ~IsWord(t[ab[2]]))}

\* the first of a non-empty set of spans: the one that starts first
First(S) == CHOOSE ab \in S : \A cd \in S : ab[1] <= cd[1]

ValueOf(t, ab) == ParseFloat(SubSeq(t, ab[1], ab[2] - 1))

\* the text holds three digits in a row
HasThreeDigits(t) ==
    \E i \in 1..(Len(t) - 2) : IsDigit(t[i]) /\ IsDigit(t[i + 1]) /\ IsDigit(t[i + 2])

HasIncomeKeyword(txt) ==
    \E i \in DOMAIN INCOME_KEYWORDS : Contains(Lower(txt), INCOME_KEYWORDS[i])

\* the keywords configured for an expense category
KeywordsOf(category) ==
    (CHOOSE e \in Range(EXPENSE_KEYWORDS) : e.category = category).keywords

HasKeywordOf(txt, category) ==
    \E i \in DOMAIN KeywordsOf(category) : Contains(Lower(txt), KeywordsOf(category)[i])

CategoryOrder ==
    <<"Makan", "Transport", "Belanja", "Tagihan", "Hiburan", "Kesehatan">>

HasExpenseKeyword(txt) == \E i \in DOMAIN CategoryOrder : HasKeywordOf(txt, CategoryOrder[i])

TERSERAH == <<"t","e","r","s","e","r","a","h">>

----------------------------------------------------------------------------
(* Properties.                                                             *)

\* C1: for every text for which extract_amount returns a value (anything
\* but None), parse_message returns a Transaction whose amount is exactly
\* that value.
C1_ParseKeepsExtractedAmount ==
    (pc = "parse_message" /\ extract_amount(text) # None)
        => (result.tag = "Transaction" /\ result.amount = extract_amount(text))

\* C2: every Transaction returned by parse_message, with or without a custom
\* date, has an amount strictly greater than 0, and a text whose amount is
\* extracted as zero produces no record.
C2_AmountPositive ==
    pc = "parse_message" =>
        /\ result.tag = "Transaction" => IsPositive(result.amount)
        /\ extract_amount(text) = Zero => result = None

C2_Witness ==
    /\ pc = "parse_message"
    /\ custom_date # None
    /\ result.tag = "Transaction"
    /\ IsPositive(result.amount)

\* C3: extract_amount applies its rules in strict priority wherever the
\* tokens stand: the first number followed by jt/juta times 1,000,000 if
\* there is one; otherwise the first number followed by a word-final k, rb
\* or ribu times 1,000; otherwise the first bare integer of at least 3
\* digits; otherwise None.
C3_StrictPriority ==
    pc = "extract_amount" =>
        LET t == Normalised(text)
        IN  result =
              IF MillionNumbers(t) # {}
              THEN Scale(ValueOf(t, First(MillionNumbers(t))), 6)
              ELSE IF ThousandNumbers(t) # {}
              THEN Scale(ValueOf(t, First(ThousandNumbers(t))), 3)
              ELSE IF BareIntegers(t) # {}
              THEN ValueOf(t, First(BareIntegers(t)))
              ELSE None

\* a thousands token stands before the millions token that wins
C3_Witness ==
    /\ pc = "extract_amount"
    /\ LET t == Normalised(text)
       IN  /\ MillionNumbers(t) # {}
           /\ ThousandNumbers(t) # {}
           /\ First(ThousandNumbers(t))[1] < First(MillionNumbers(t))[1]
    /\ result = Float(<<"1">>, 6)

\* C4: with no magnitude suffix in the text, digit runs all shorter than 3
\* give None ("99"), and a bare run of 3 or more digits gives its literal
\* value ("100" gives 100).
C4_ThreeDigitFloor ==
    pc = "extract_amount" =>
        LET t == Normalised(text)
            no_suffix == MillionNumbers(t) = {} /\ ThousandNumbers(t) = {}
        IN  /\ (no_suffix /\ ~HasThreeDigits(t)) => result = None
            /\ (no_suffix /\ BareIntegers(t) # {})
                   => result = ValueOf(t, First(BareIntegers(t)))
            /\ text = <<"9","9">> => result = None
            /\ text = <<"1","0","0">> => result = Float(<<"1">>, 2)

C4_Witness ==
    /\ pc = "extract_amount"
    /\ text = <<"9","9">>
    /\ result = None

\* C5: extract_amount reads a decimal comma as a decimal point: replacing
\* every ',' of the text by '.' does not change the result ("1,1jt" and
\* "1.1jt" both give 1,100,000).
C5_CommaIsPoint ==
    pc = "extract_amount" =>
        /\ result = extract_amount(ReplaceComma(text))
        /\ text = <<"1",",","1","j","t">> => result = Float(<<"1","1">>, 5)

C5_Witness ==
    /\ pc = "extract_amount"
    /\ text = <<"1",",","1","j","t">>
    /\ result = Float(<<"1","1">>, 5)

\* C6: a text that contains an income keyword is ('income', 'Pemasukan'),
\* whatever expense keywords it also contains.
C6_IncomeFirst ==
    (pc = "detect_category" /\ HasIncomeKeyword(text))
        => result = <<"income", "Pemasukan">>

C6_Witness ==
    /\ pc = "detect_category"
    /\ HasIncomeKeyword(text)
    /\ HasExpenseKeyword(text)
    /\ result = <<"income", "Pemasukan">>

\* C7: without an income keyword, the result is the first category, in the
\* order Makan, Transport, Belanja, Tagihan, Hiburan, Kesehatan, that has a
\* keyword in the text, wherever the keywords stand.
C7_FirstCategoryWins ==
    (pc = "detect_category" /\ ~HasIncomeKeyword(text)) =>
        \A i \in DOMAIN CategoryOrder :
            (/\ HasKeywordOf(text, CategoryOrder[i])
             /\ \A j \in 1..(i - 1) : ~HasKeywordOf(text, CategoryOrder[j]))
                => result = <<"expense", CategoryOrder[i]>>

\* "Belikopi": the Belanja keyword stands first, Makan wins
C7_Witness ==
    /\ pc = "detect_category"
    /\ text = <<"B","e","l","i","k","o","p","i">>
    /\ result = <<"expense", "Makan">>

\* C8, as stated: detect_category("terserah") gives the category Lainnya.
C8_Original ==
    (pc = "detect_category" /\ text = TERSERAH) => result[2] = "Lainnya"

\* C8, amended: detect_category("terserah") gives ('expense', 'Kesehatan'):
\* the Kesehatan keyword "rs" is a substring of "terserah".
C8_TerserahIsKesehatan ==
    (pc = "detect_category" /\ text = TERSERAH)
        => (result = <<"expense", "Kesehatan">> /\ Contains(text, <<"r","s">>))

C8_Witness ==
    /\ pc = "detect_category"
    /\ text = TERSERAH
    /\ result = <<"expense", "Kesehatan">>

\* C9: a text with no income and no expense keyword is ('expense',
\* 'Lainnya'), and the missing category never costs the record:
\* parse_message returns a Transaction of that category whenever the amount
\* is there (and no exception of the date resolution escapes).
C9_DefaultLainnya ==
    ~(HasIncomeKeyword(text) \/ HasExpenseKeyword(text)) =>
        /\ pc = "detect_category" => result = <<"expense", "Lainnya">>
        /\ (pc = "parse_message" /\ Truthy(extract_amount(text)) /\ result # OverflowError)
               => /\ result.tag = "Transaction"
                  /\ result.transaction_type = "expense"
                  /\ result.category = "Lainnya"

C9_Witness ==
    /\ pc = "parse_message"
    /\ ~(HasIncomeKeyword(text) \/ HasExpenseKeyword(text))
    /\ result.tag = "Transaction"
    /\ result.category = "Lainnya"

\* C10: in every Transaction of parse_message the type is income exactly
\* when the category is Pemasukan, and an expense has one of the categories
\* Makan, Transport, Belanja, Tagihan, Hiburan, Kesehatan, Lainnya.
C10_KindCategoryConsistent ==
    (pc = "parse_message" /\ result.tag = "Transaction") =>
        /\ result.transaction_type \in {"income", "expense"}
        /\ result.transaction_type = "income" <=> result.category = "Pemasukan"
        /\ result.transaction_type = "expense"
               => result.category \in Range(CategoryOrder) \cup {"Lainnya"}

C10_Witness ==
    /\ pc = "parse_message"
    /\ result.tag = "Transaction"
    /\ result.transaction_type = "income"
    /\ result.category = "Pemasukan"

----------------------------------------------------------------------------
(* What the date properties say about a text, stated on the lower-cased    *)
(* text itself and not through the matchers of extract_date.               *)

HARI_LALU == <<" ">> \o HARI \o <<" ">> \o LALU

HARI_YANG_LALU == <<" ">> \o HARI \o <<" ">> \o YANG \o <<" ">> \o LALU

\* " hari lalu" or " hari yang lalu" stands at b
EndsPhrase(t, b) == PrefixAt(t, b, HARI_LALU) \/ PrefixAt(t, b, HARI_YANG_LALU)

\* the places where the word w is written in t
Occurrences(t, w) == {p \in 1..Len(t) : PrefixAt(t, p, w)}

\* w is written in t as a word of its own
HasWord(t, w) ==
    \E p \in Occurrences(t, w) :
        /\ (p = 1 \/ ~IsWord(t[p - 1]))
        /\ (p + Len(w) > Len(t) \/ ~IsWord(t[p + Len(w)]))

HasYesterdayWord(t) == HasWord(t, KEMARIN) \/ HasWord(t, YESTERDAY)

\* the written integers N of the phrases "N hari lalu", "N hari yang lalu"
WrittenIntegers(t) ==
    {ab \in Spans(t) :
        /\ \A i \in ab[1]..(ab[2] - 1) : IsDigit(t[i])
        /\ (ab[1] = 1 \/ ~IsDigit(t[ab[1] - 1]))
        /\ EndsPhrase(t, ab[2])}

\* the entries of the lookup table whose words stand before "hari lalu" or
\* "hari yang lalu", each with the place where its words start
SpelledOut(t) ==
    {ai \in (1..Len(t)) \X DOMAIN INDONESIAN_NUMBERS :
        /\ PrefixAt(t, ai[1], INDONESIAN_NUMBERS[ai[2]].words)
        /\ EndsPhrase(t, ai[1] + Len(INDONESIAN_NUMBERS[ai[2]].words))}

\* the date n - days exists and result is a datetime of that date
IsDaysBefore(r, n, days) ==
    n.ord - days >= 1 => (r.tag = "datetime" /\ r.ord = n.ord - days)

\* C11: every datetime that extract_date returns for a relative phrase is
\* exactly midnight: hour, minute, second and microsecond are all zero,
\* whatever the current time is.  (A date literal gives midnight by
\* construction, so the statement is made of every datetime returned.)
C11_RelativeIsMidnight ==
    (pc = "extract_date" /\ result.tag = "datetime") =>
        /\ result.hour = 0
        /\ result.minute = 0
        /\ result.second = 0
        /\ result.microsecond = 0

\* C12: for a text without kemarin/yesterday whose one "lalu" ends a phrase
\* "N hari lalu" or "N hari yang lalu", extract_date returns the date of now
\* minus N days (where that date exists): N is the written integer, or the
\* integer the lookup table gives for the spelled-out words, 12 for
\* "dua belas".
C12_DaysAgo ==
    (/\ pc = "extract_date"
     /\ ~HasYesterdayWord(Lower(text))
     /\ Cardinality(Occurrences(Lower(text), LALU)) = 1) =>
        /\ \A ab \in WrittenIntegers(Lower(text)) :
               IsDaysBefore(result, now,
                            DigitsToInt(SubSeq(Lower(text), ab[1], ab[2] - 1)))
        /\ \A ai \in SpelledOut(Lower(text)) :
               IsDaysBefore(result, now, INDONESIAN_NUMBERS[ai[2]].num)

\* "dua belas hari lalu" has resolved to twelve days before now
C12_Witness ==
    /\ pc = "extract_date"
    /\ \E a \in 1..Len(text) : <<a, 12>> \in SpelledOut(Lower(text))
    /\ result.tag = "datetime"
    /\ result.ord = now.ord - 12

\* the phrases of the week pattern and of the month pattern
WeekPhrases ==
    {MINGGU \o <<" ">> \o LALU, MINGGU \o <<" ">> \o KEMARIN,
     LAST \o <<" ">> \o WEEK}

MonthPhrases ==
    {BULAN \o <<" ">> \o LALU, BULAN \o <<" ">> \o KEMARIN,
     LAST \o <<" ">> \o MONTH}

\* C13: a text that is "minggu lalu", "minggu kemarin" or "last week"
\* resolves to the date of now minus 7 days, and one that is "bulan lalu",
\* "bulan kemarin" or "last month" to the date of now minus 30 days.
C13_WeekAndMonth ==
    pc = "extract_date" =>
        /\ Strip(Lower(text)) \in WeekPhrases => IsDaysBefore(result, now, 7)
        /\ Strip(Lower(text)) \in MonthPhrases => IsDaysBefore(result, now, 30)

\* the date literals written in txt: <<p, q, r>> when one or two digits
\* stand at p, a separator before q, one or two digits at q, a separator
\* before r and four digits at r, no digit of the text left out in front
Separators == {"/", "-"}

Literals(txt) ==
    {pqr \in {<<p, p + a, p + a + b>> : p \in 1..Len(txt), a \in {2, 3}, b \in {2, 3}} :
        /\ pqr[3] + 3 <= Len(txt)
        /\ \A i \in pqr[1]..(pqr[2] - 2) : IsDigit(txt[i])
        /\ txt[pqr[2] - 1] \in Separators
        /\ \A i \in pqr[2]..(pqr[3] - 2) : IsDigit(txt[i])
        /\ txt[pqr[3] - 1] \in Separators
        /\ \A i \in pqr[3]..(pqr[3] + 3) : IsDigit(txt[i])}

FirstLiteral(txt) ==
    CHOOSE pqr \in Literals(txt) : \A xyz \in Literals(txt) : pqr[1] <= xyz[1]

LiteralDay(txt) ==
    DigitsToInt(SubSeq(txt, FirstLiteral(txt)[1], FirstLiteral(txt)[2] - 2))

LiteralMonth(txt) ==
    DigitsToInt(SubSeq(txt, FirstLiteral(txt)[2], FirstLiteral(txt)[3] - 2))

LiteralYear(txt) ==
    DigitsToInt(SubSeq(txt, FirstLiteral(txt)[3], FirstLiteral(txt)[3] + 3))

\* the Gregorian calendar has the day d of the month m of the year y
OnCalendar(y, m, d) ==
    /\ y \in 1..9999
    /\ m \in 1..12
    /\ d >= 1
    /\ d <= CASE m \in {1, 3, 5, 7, 8, 10, 12} -> 31
              [] m \in {4, 6, 9, 11} -> 30
              [] OTHER -> IF y % 4 = 0 /\ (y % 100 # 0 \/ y % 400 = 0)
                          THEN 29 ELSE 28

LiteralOnCalendar(txt) ==
    OnCalendar(LiteralYear(txt), LiteralMonth(txt), LiteralDay(txt))

\* no word of a relative phrase is written in t
NoRelativeWord(t) ==
    \A w \in {KEMARIN, YESTERDAY, LALU, WEEK, MONTH} : Occurrences(t, w) = {}

\* C14: for a text whose only date pattern is a DD/MM/YYYY or DD-MM-YYYY
\* literal, extract_date returns that calendar date at midnight, whatever
\* the current time, when the date is on the calendar, and None (no
\* exception) when it is not; parse_message then does not raise and dates
\* its record with the current time.
C14_DateLiteral ==
    (Literals(text) # {} /\ NoRelativeWord(Lower(text))) =>
        /\ pc = "extract_date" =>
               result = IF LiteralOnCalendar(text)
                        THEN DateTime(Ymd2Ord(LiteralYear(text), LiteralMonth(text),
                                              LiteralDay(text)), 0, 0, 0, 0)
                        ELSE None
        /\ (pc = "parse_message" /\ custom_date = None /\ ~LiteralOnCalendar(text)) =>
               /\ result.tag \in {"Transaction", "None"}
               /\ result.tag = "Transaction" => result.date = now

\* a record dated now, made from a text with a literal that is no date
C14_Witness ==
    /\ pc = "parse_message"
    /\ custom_date = None
    /\ Literals(text) # {}
    /\ NoRelativeWord(Lower(text))
    /\ ~LiteralOnCalendar(text)
    /\ result.tag = "Transaction"
    /\ result.date = now

\* C15: the date of the record that parse_message builds is the custom date,
\* verbatim, whenever one is supplied, even if the text holds a date phrase
\* (the resolver is then not run, so nothing it raises can escape);
\* otherwise the date that extract_date resolves from the text; otherwise
\* the current time.
C15_DatePrecedence ==
    pc = "parse_message" =>
        /\ custom_date # None => result.tag \in {"Transaction", "None"}
        /\ result.tag = "Transaction" =>
               result.date = IF custom_date # None THEN custom_date
                             ELSE IF extract_date(text, now) # None
                             THEN extract_date(text, now)
                             ELSE now

\* a record dated with the custom date although the text says "kemarin"
C15_Witness ==
    /\ pc = "parse_message"
    /\ custom_date # None
    /\ HasYesterdayWord(Lower(text))
    /\ result.tag = "Transaction"
    /\ result.date = custom_date

\* every field of the record r is populated
FullyPopulated(r) ==
    /\ r.tag = "Transaction"
    /\ IsPositive(r.amount)
    /\ r.transaction_type \in {"income", "expense"}
    /\ r.category \in Range(CategoryOrder) \cup {"Lainnya", "Pemasukan"}
    /\ r.description # <<>>
    /\ r.date.tag = "datetime"

\* C20: for every text, with or without a custom date, parse_message ends
\* with a fully populated Transaction or with None and raises nothing, also
\* for a text with a phrase "N lalu" or "N hari lalu" whatever the integer N.
C20_NeverRaises ==
    pc = "parse_message" => (result = None \/ FullyPopulated(result))

----------------------------------------------------------------------------
(* Descriptions.                                                           *)

\* d is a non-empty string without white space at either end
IsLabel(d) == d # <<>> /\ ~IsSpace(d[1]) /\ ~IsSpace(d[Len(d)])

\* the texts made of date phrases, amounts and white space only
DatesAndAmounts ==
    TextsOver({<<"k","e","m","a","r","i","n"," ">>, <<"5","k"," ">>,
               <<"2","5","0","0","0"," ">>}, MaxDescriptionTokens)

\* C16: clean_description never returns an empty string: its result is a
\* non-empty trimmed label for every text, the placeholder "Transaksi" when
\* the text holds nothing but date phrases, amounts and white space; so the
\* description of every Transaction is non-empty.
C16_NeverEmpty ==
    /\ pc \in {"clean_description", "clean_description_again"} => IsLabel(result)
    /\ (pc = "clean_description" /\ text \in DatesAndAmounts) => result = TRANSAKSI
    /\ (pc = "parse_message" /\ result.tag = "Transaction") =>
           IsLabel(result.description)

\* a text of a date phrase and an amount has been cleaned to the placeholder
C16_Witness ==
    /\ pc = "clean_description"
    /\ text # <<>>
    /\ text \in DatesAndAmounts
    /\ result = TRANSAKSI

\* C17: clean_description is idempotent: cleaning the description that
\* clean_description returned for a text gives that description again.
C17_Idempotent ==
    pc = "clean_description_again" =>
        result = clean_description(text, extract_amount(text))

\* C18: clean_description and extract_amount use the same amount patterns:
\* in a text without date phrases (the cleaner then scans the text as it
\* is), wherever the cleaner's pattern for numbers with a magnitude suffix
\* matches, the millions or the thousands pattern of extract_amount matches
\* too; a number before a word that only starts with k is no amount to
\* either of them.
C18_SamePatternSet ==
    (pc = "clean_description" /\ clean_text_from_date(text) = text) =>
        \A p \in DOMAIN text :
            UnitEndAt(Lower(text), p) # 0 =>
                \/ JutaMatchAt(Normalised(text), p)
                \/ RibuMatchAt(Normalised(text), p)

\* the number of the amount token of t (lower case, comma read as a point):
\* the one that the priority of millions, thousands, bare integers selects
AmountSpan(t) ==
    IF MillionNumbers(t) # {} THEN First(MillionNumbers(t))
    ELSE IF ThousandNumbers(t) # {} THEN First(ThousandNumbers(t))
    ELSE First(BareIntegers(t))

\* every digit of txt is a digit of its amount token
DigitsOnlyInAmount(txt) ==
    \A i \in DOMAIN txt :
        IsDigit(txt[i]) =>
            (AmountSpan(Normalised(txt))[1] <= i /\ i < AmountSpan(Normalised(txt))[2])

HasDigit(d) == \E i \in DOMAIN d : IsDigit(d[i])

\* one of the date patterns matches somewhere in d
HasDatePhrase(d) ==
    \E p \in DOMAIN d :
        \/ KemarinEndAt(Lower(d), p) # 0
        \/ DaysEndAt(Lower(d), p) # 0
        \/ IndoDaysEndAt(Lower(d), p) # 0
        \/ MingguEndAt(Lower(d), p) # 0
        \/ BulanEndAt(Lower(d), p) # 0
        \/ DateEndAt(d, p) # 0

\* C19: in every record that parse_message returns, the description holds
\* no digit of the amount token (when all the digits of the text are in the
\* amount token, the description has no digit at all) and no date phrase.
C19_DescriptionIsClean ==
    (pc = "parse_message" /\ result.tag = "Transaction") =>
        /\ DigitsOnlyInAmount(text) => ~HasDigit(result.description)
        /\ ~HasDatePhrase(result.description)

----------------------------------------------------------------------------
(* A date literal and a bare amount in one message.                        *)

\* what follows the first date literal of txt
AfterLiteral(txt) == SubSeq(txt, FirstLiteral(txt)[3] + 4, Len(txt))

\* txt is a date of the calendar written as a literal, then a description
\* without digits, then one bare amount: an integer of at least 3 digits
LiteralThenAmount(txt) ==
    /\ Literals(txt) # {}
    /\ FirstLiteral(txt)[1] = 1
    /\ LiteralOnCalendar(txt)
    /\ NoRelativeWord(Lower(txt))
    /\ MillionNumbers(Normalised(txt)) = {}
    /\ ThousandNumbers(Normalised(txt)) = {}
    /\ Cardinality(BareIntegers(AfterLiteral(txt))) = 1
    /\ \A i \in DOMAIN AfterLiteral(txt) :
           IsDigit(AfterLiteral(txt)[i]) =>
               \E ab \in BareIntegers(AfterLiteral(txt)) : ab[1] <= i /\ i < ab[2]

\* C27: for a message made of a DD/MM/YYYY literal, a description and a bare
\* amount, as "10/01/2026 makan 25000", parse_message returns a record with
\* the bare amount (25000) and the date of the literal; no digits of the
\* literal are taken as the amount.
C27_AmountNotFromLiteral ==
    (pc = "parse_message" /\ custom_date = None /\ LiteralThenAmount(text)) =>
        /\ result.tag = "Transaction"
        /\ result.amount =
               ValueOf(AfterLiteral(text), First(BareIntegers(AfterLiteral(text))))
        /\ result.date = DateTime(Ymd2Ord(LiteralYear(text), LiteralMonth(text),
                                          LiteralDay(text)), 0, 0, 0, 0)

----------------------------------------------------------------------------
(* models.transaction.Transaction.to_dict and format_message               *)

\* the value of a float that is a whole number of rupiah
Whole(f) == DigitsToInt(f.mant) * 10 ^ f.exp

\* date is strftime('%d/%m/%Y') of the date, kept as its ordinal; time is
\* strftime('%H:%M:%S'); `detail or ''` and `photo_url or ''` are empty,
\* the parser never sets them
to_dict(transaction) ==
    [date |-> transaction.date.ord,
     time |-> <<transaction.date.hour, transaction.date.minute, transaction.date.second>>,
     type |-> IF transaction.transaction_type = "income" THEN "Pemasukan" ELSE "Pengeluaran",
     category |-> transaction.category,
     amount |-> Whole(transaction.amount),
     description |-> transaction.description,
     detail |-> <<>>,
     photo_url |-> <<>>]

\* the confirmation text, as the fields it is formatted from; the date is
\* strftime('%d/%m/%Y %H:%M'), the amount is shown with format ',.0f'
format_message(transaction) ==
    [part |-> "message",
     type_text |-> IF transaction.transaction_type = "income" THEN "PEMASUKAN" ELSE "PENGELUARAN",
     sign |-> IF transaction.transaction_type = "income" THEN "+" ELSE "-",
     category |-> transaction.category,
     amount |-> Whole(transaction.amount),
     description |-> transaction.description,
     date |-> <<transaction.date.ord, transaction.date.hour, transaction.date.minute>>]

----------------------------------------------------------------------------
(* services.sheets.GoogleSheetsManager                                     *)

\* the header row that _setup_header writes to A1:G1
headers == <<"Tanggal", "Waktu", "Tipe", "Kategori", "Jumlah", "Keterangan", "Saldo">>

\* sheet.col_values(col): the cells of one column, top to bottom, '' where
\* a row is shorter
col_values(sh, col) ==
    [i \in DOMAIN sh |-> IF col <= Len(sh[i]) THEN sh[i][col] ELSE ""]

\* _get_current_balance; readable is whether col_values returns and the
\* last cell converts to float, anything else returns 0.0
get_current_balance(sh, readable) ==
    IF ~readable THEN 0
    ELSE IF Len(col_values(sh, 8)) > 1 THEN col_values(sh, 8)[Len(sh)]
    ELSE 0

\* a variant of the row: the amount is written unsigned
Row_Unsigned(transaction, current_balance) ==
    <<to_dict(transaction).date,
      to_dict(transaction).time,
      to_dict(transaction).type,
      to_dict(transaction).category,
      Whole(transaction.amount),
      to_dict(transaction).description,
      to_dict(transaction).detail,
      IF transaction.transaction_type = "income"
      THEN current_balance + Whole(transaction.amount)
      ELSE current_balance - Whole(transaction.amount)>>

\* the row that add_transaction builds: new_balance and amount_display
Row(transaction, current_balance) ==
    <<to_dict(transaction).date,
      to_dict(transaction).time,
      to_dict(transaction).type,
      to_dict(transaction).category,
      IF transaction.transaction_type = "income"
      THEN Whole(transaction.amount) ELSE 0 - Whole(transaction.amount),
      to_dict(transaction).description,
      to_dict(transaction).detail,
      IF transaction.transaction_type = "income"
      THEN current_balance + Whole(transaction.amount)
      ELSE current_balance - Whole(transaction.amount)>>

----------------------------------------------------------------------------
(* bot.handlers: the parts of a reply and the date argument of /add_past   *)

Part(name) == [part |-> name]

\* "Saldo Terkini: Rp {current_balance:,.0f}"
Saldo(current_balance) == [part |-> "Saldo Terkini", balance |-> current_balance]

ValueError == [tag |-> "ValueError"]

\* str.split(sep)
RECURSIVE Split(_, _)
Split(s, sep) ==
    IF \A i \in DOMAIN s : s[i] # sep THEN <<s>>
    ELSE <<SubSeq(s, 1, Leftmost({i \in DOMAIN s : s[i] = sep}) - 1)>>
         \o Split(SubSeq(s, Leftmost({i \in DOMAIN s : s[i] = sep}) + 1, Len(s)), sep)

\* ' '.join(words)
RECURSIVE Join(_)
Join(words) ==
    IF words = <<>> THEN <<>>
    ELSE IF Len(words) = 1 THEN words[1]
    ELSE words[1] \o <<" ">> \o Join(Tail(words))

\* the literal without its sign
Unsigned(s) == IF s # <<>> /\ s[1] \in {"+", "-"} THEN Tail(s) ELSE s

\* int(s) returns: an optional sign, then digits, single underscores only
\* between digits
IsIntLiteral(s) ==
    /\ Unsigned(s) # <<>>
    /\ \A i \in DOMAIN Unsigned(s) :
          \/ IsDigit(Unsigned(s)[i])
          \/ /\ Unsigned(s)[i] = "_"
             /\ 1 < i
             /\ i < Len(Unsigned(s))
             /\ IsDigit(Unsigned(s)[i - 1])
             /\ IsDigit(Unsigned(s)[i + 1])

\* the digits of the magnitude, without underscores and leading zeros
Magnitude(s) == StripLeadingZeros(SelectSeq(Unsigned(s), IsDigit))

\* int(s), for a literal within the C int range
IntOf(s) ==
    IF s[1] = "-" THEN 0 - DigitsToInt(Magnitude(s)) ELSE DigitsToInt(Magnitude(s))

\* 2147483647, the largest C int
INT_MAX == <<"2","1","4","7","4","8","3","6","4","7">>

\* digit strings of one length, compared as numbers
GreaterDigits(a, b) ==
    \E i \in DOMAIN a :
        /\ DigitVal(a[i]) > DigitVal(b[i])
        /\ \A j \in 1..(i - 1) : a[j] = b[j]

\* datetime(year, month, day, ...) raises OverflowError for an argument
\* that does not fit a C int
ExceedsCInt(s) ==
    \/ Len(Magnitude(s)) > Len(INT_MAX)
    \/ /\ Len(Magnitude(s)) = Len(INT_MAX)
       /\ GreaterDigits(Magnitude(s), INT_MAX)
       /\ ~(s[1] = "-" /\ Magnitude(s) = <<"2","1","4","7","4","8","3","6","4","8">>)

\* the date of the parsed parts, with the time of day of the clock
DateOfParts(parts, n) ==
    IF \E i \in 1..3 : ~IsIntLiteral(parts[i]) THEN ValueError
    ELSE IF \E i \in 1..3 : ExceedsCInt(parts[i]) THEN OverflowError
    ELSE IF ~ValidDate(IntOf(parts[3]), IntOf(parts[2]), IntOf(parts[1])) THEN ValueError
    ELSE DateTime(Ymd2Ord(IntOf(parts[3]), IntOf(parts[2]), IntOf(parts[1])),
                  n.hour, n.minute, n.second, 0)

\* the date parsing of add_past_command: the custom date, or the exception
\* that the statements raise
custom_date_of(date_str, n) ==
    IF Len(Split(date_str, "/")) # 3 THEN ValueError
    ELSE DateOfParts(Split(date_str, "/"), n)

\* a variant of the annotation: a failed save is not reported
Annotate_SilentFailure(response, saved_to_sheets, current_balance) ==
    IF saved_to_sheets
    THEN response \o <<Part("Tersimpan ke Google Sheets!"), Saldo(current_balance)>>
    ELSE response

\* the status added to the reply after the persistence attempt;
\* current_balance is never None when the save succeeded
Annotate(response, saved_to_sheets, current_balance) ==
    IF saved_to_sheets
    THEN response \o <<Part("Tersimpan ke Google Sheets!"), Saldo(current_balance)>>
    ELSE IF connected
    THEN response \o <<Part("Gagal menyimpan ke Google Sheets.")>>
    ELSE response

----------------------------------------------------------------------------
(* The inputs of the bot.                                                  *)

\* the calls made in one run; the calls are numbered in the order they start
MaxCalls == 2

Handlers == 1..MaxCalls

\* texts of ordinary messages
BotTexts ==
    {<<"m","a","k","a","n"," ","2","5","0","0","0">>,
     <<"g","a","j","i"," ","5","0","r","b">>,
     <<"h","a","l","o">>,
     <<"9","9","9","9","9","9","9"," ","l","a","l","u">>}

\* context.args of /add_past messages
AddPastArgs ==
    {<<>>,
     <<<<"1","0","/","0","1","/","2","0","2","6">>>>,
     <<<<"1","0","/","0","1","/","2","0","2","6">>, <<"m","a","k","a","n">>, <<"2","5","0","0","0">>>>,
     <<<<"3","1","/","0","2","/","2","0","2","6">>, <<"m","a","k","a","n">>, <<"2","5","0","0","0">>>>,
     <<<<"1","0","-","0","1","-","2","0","2","6">>, <<"m","a","k","a","n">>, <<"2","5","0","0","0">>>>,
     <<<<"1","0","/","0","1","/","2","0","2","6">>, <<"h","a","l","o">>>>,
     <<<<"1","/","1","/","9","9","9","9","9","9","9","9","9","9","9">>, <<"m","a","k","a","n">>, <<"2","5","0","0","0">>>>,
     <<<<"1","0","/","1","/","2","0","2","6">>, <<"g","a","j","i">>, <<"5","0","r","b">>>>}

\* 2026-01-15 12:34:56.789012 (WIB)
BotNows == {DateTime(Ymd2Ord(2026, 1, 15), 12, 34, 56, 789012)}

\* the records handed to add_transaction by a direct call
DirectTransactions ==
    {parse_message(txt, None, n) : txt \in {<<"m","a","k","a","n"," ","2","5","0","0","0">>, <<"g","a","j","i"," ","5","0","r","b">>}, n \in BotNows}

----------------------------------------------------------------------------
(* The bot.  A call is one run of handle_text_message, of add_past_command *)
(* or of add_transaction on its own.  A handler is a coroutine: it gives   *)
(* up the event loop only at `await reply_text`; everything before that,   *)
(* the calls of sheets_manager included, is synchronous code.              *)

\* the local variables of a call that has not started; calls counts the
\* calls of add_transaction made so far by the call
NoCall ==
    [handler |-> "none", input |-> <<>>, transaction |-> None,
     current_balance |-> 0, saved_to_sheets |-> FALSE, response |-> <<>>,
     calls |-> 0]

\* a variant of the scheduling: a call is run at any time, also while
\* another one is between two statements of add_transaction
Scheduled_Preemptive(h) == TRUE

\* the event loop runs a step of h only when no other call is inside
\* synchronous code
Scheduled(h) == running \in {0, h}

Starts(h) ==
    /\ hpc[h] = "idle"
    /\ IF h = 1 THEN TRUE ELSE hpc[h - 1] # "idle"
    /\ Scheduled(h)

\* the call reaches `await update.message.reply_text(...)`
Respond(h, locals) ==
    /\ hpc' = [hpc EXCEPT ![h] = "reply_text"]
    /\ hvar' = [hvar EXCEPT ![h] = locals]
    /\ running' = 0
    /\ UNCHANGED <<connected, sheet, replies>>

\* the call enters sheets_manager.add_transaction with the manager connected
Enter(h, locals) ==
    /\ hpc' = [hpc EXCEPT ![h] = "add_transaction"]
    /\ hvar' = [hvar EXCEPT ![h] = [locals EXCEPT !.calls = 1]]
    /\ running' = h
    /\ UNCHANGED <<connected, sheet, replies>>

\* what both handlers do with the outcome of parse_message
Process(h, locals, transaction) ==
    IF transaction = OverflowError
    THEN Respond(h, [locals EXCEPT !.response = <<Part("terjadi error")>>])
    ELSE IF transaction = None
    THEN Respond(h, [locals EXCEPT !.response = <<Part("nominal tidak ditemukan")>>])
    ELSE IF connected
    THEN Enter(h, [locals EXCEPT !.transaction = transaction,
                                 !.response = <<format_message(transaction)>>])
    ELSE Respond(h, [locals EXCEPT
                        !.transaction = transaction,
                        !.response = Annotate(<<format_message(transaction),
                                                Part("Google Sheets belum dikonfigurasi")>>,
                                              FALSE, None)])

HandleTextMessage(h) ==
    /\ Starts(h)
    /\ \E txt \in BotTexts, n \in BotNows :
          Process(h, [NoCall EXCEPT !.handler = "handle_text_message", !.input = <<txt>>],
                  parse_message(txt, None, n))
    /\ UNCHANGED <<parserVars, mainVars, apiVars>>

\* what add_past_command does with the outcome of the date parsing
ProcessPast(h, locals, args, custom, n) ==
    IF custom = ValueError
    THEN Respond(h, [locals EXCEPT !.response = <<Part("Format tanggal salah!")>>])
    ELSE IF custom = OverflowError
    THEN Respond(h, [locals EXCEPT !.response = <<Part("terjadi error")>>])
    ELSE Process(h, locals, parse_message(Join(Tail(args)), custom, n))

AddPastCommand(h) ==
    /\ Starts(h)
    /\ \E args \in AddPastArgs, n \in BotNows :
          IF Len(args) < 2
          THEN Respond(h, [NoCall EXCEPT
                              !.handler = "add_past_command", !.input = args,
                              !.response = <<Part("Format: /add_past DD/MM/YYYY deskripsi nominal")>>])
          ELSE ProcessPast(h, [NoCall EXCEPT !.handler = "add_past_command", !.input = args],
                           args, custom_date_of(args[1], n), n)
    /\ UNCHANGED <<parserVars, mainVars, apiVars>>

\* add_transaction called on its own; it returns False at once when the
\* manager is not connected
AddTransaction(h) ==
    /\ Starts(h)
    /\ \E transaction \in DirectTransactions :
          IF connected
          THEN Enter(h, [NoCall EXCEPT !.handler = "add_transaction",
                                       !.transaction = transaction])
          ELSE /\ hpc' = [hpc EXCEPT ![h] = "return"]
               /\ hvar' = [hvar EXCEPT ![h] =
                              [NoCall EXCEPT !.handler = "add_transaction",
                                             !.transaction = transaction,
                                             !.calls = 1]]
               /\ running' = 0
               /\ UNCHANGED <<connected, sheet, replies>>
    /\ UNCHANGED <<parserVars, mainVars, apiVars>>

\* add_transaction: current_balance = self._get_current_balance()
GetCurrentBalance(h) ==
    /\ hpc[h] = "add_transaction"
    /\ Scheduled(h)
    /\ \E readable \in BOOLEAN :
          hvar' = [hvar EXCEPT ![h].current_balance = get_current_balance(sheet, readable)]
    /\ hpc' = [hpc EXCEPT ![h] = "append_row"]
    /\ UNCHANGED <<connected, sheet, running, replies>>
    /\ UNCHANGED <<parserVars, mainVars, apiVars>>

\* a variant of the end of add_transaction: an exception of append_row is
\* swallowed and True is returned
AppendRow_AlwaysTrue(h) ==
    /\ hpc[h] = "append_row"
    /\ Scheduled(h)
    /\ \E appended \in BOOLEAN :
          /\ sheet' = IF appended
                      THEN Append(sheet, Row(hvar[h].transaction, hvar[h].current_balance))
                      ELSE sheet
          /\ hvar' = [hvar EXCEPT ![h].saved_to_sheets = TRUE]
          /\ hpc' = [hpc EXCEPT ![h] =
                        IF hvar[h].handler = "add_transaction" THEN "return"
                        ELSE "get_balance"]
          /\ running' = IF hvar[h].handler = "add_transaction" THEN 0 ELSE h
    /\ UNCHANGED <<connected, replies>>
    /\ UNCHANGED <<parserVars, mainVars, apiVars>>

\* add_transaction from the row to the return: self.sheet.append_row(row)
\* returns, or raises and the except clause returns False; a handler then
\* adds the annotation of a failed save and replies
AppendRow(h) ==
    /\ hpc[h] = "append_row"
    /\ Scheduled(h)
    /\ \E appended \in BOOLEAN :
          /\ sheet' = IF appended
                      THEN Append(sheet, Row(hvar[h].transaction, hvar[h].current_balance))
                      ELSE sheet
          /\ hvar' = [hvar EXCEPT
                         ![h].saved_to_sheets = appended,
                         ![h].response =
                             IF appended \/ hvar[h].handler = "add_transaction" THEN @
                             ELSE Annotate(@, FALSE, None)]
          /\ hpc' = [hpc EXCEPT ![h] =
                        IF hvar[h].handler = "add_transaction" THEN "return"
                        ELSE IF appended THEN "get_balance"
                        ELSE "reply_text"]
          /\ running' = IF appended /\ hvar[h].handler # "add_transaction" THEN h ELSE 0
    /\ UNCHANGED <<connected, replies>>
    /\ UNCHANGED <<parserVars, mainVars, apiVars>>

\* the handler after a successful save: current_balance =
\* sheets_manager.get_balance(), then the annotation
GetBalance(h) ==
    /\ hpc[h] = "get_balance"
    /\ Scheduled(h)
    /\ \E readable \in BOOLEAN :
          hvar' = [hvar EXCEPT ![h].response =
                      Annotate(@, TRUE, get_current_balance(sheet, readable))]
    /\ hpc' = [hpc EXCEPT ![h] = "reply_text"]
    /\ running' = 0
    /\ UNCHANGED <<connected, sheet, replies>>
    /\ UNCHANGED <<parserVars, mainVars, apiVars>>

\* await update.message.reply_text(response): the reply is sent and the
\* handler returns
ReplyText(h) ==
    /\ hpc[h] = "reply_text"
    /\ replies' = Append(replies, [hvar[h] EXCEPT !.current_balance = 0])
    /\ hpc' = [hpc EXCEPT ![h] = "done"]
    /\ hvar' = [hvar EXCEPT ![h] = NoCall]
    /\ UNCHANGED <<connected, sheet, running>>
    /\ UNCHANGED <<parserVars, mainVars, apiVars>>

\* the manager after construction: connected or not, the header written
\* or, when _setup_header only logged a warning, no header; no data rows
InitBot ==
    /\ text = <<>>
    /\ custom_date = None
    /\ now = None
    /\ pc = "ready"
    /\ result = None
    /\ connected \in BOOLEAN
    /\ sheet \in {<<headers>>, <<>>}
    /\ ~connected => sheet = <<>>
    /\ hpc = [h \in Handlers |-> "idle"]
    /\ hvar = [h \in Handlers |-> NoCall]
    /\ running = 0
    /\ replies = <<>>
    /\ MainIdle
    /\ ApiIdle

NextBot ==
    \E h \in Handlers :
        \/ HandleTextMessage(h)
        \/ AddPastCommand(h)
        \/ AddTransaction(h)
        \/ GetCurrentBalance(h)
        \/ AppendRow(h)
        \/ GetBalance(h)
        \/ ReplyText(h)

SpecBot == InitBot /\ [][NextBot]_vars

----------------------------------------------------------------------------
(* Claims about the handlers and the sheet.                                *)

\* the rows below the header
DataRows(sh) == IF sh # <<>> /\ Len(sh[1]) = Len(headers) THEN Tail(sh) ELSE sh

NoAmount(txt) == ~Truthy(extract_amount(txt))

\* DD/MM/YYYY with three integers that are a date of the calendar
IsCalendarDate(date_str) ==
    /\ Len(Split(date_str, "/")) = 3
    /\ \A i \in 1..3 : IsIntLiteral(Split(date_str, "/")[i])
    /\ \A i \in 1..3 : Len(Magnitude(Split(date_str, "/")[i])) <= 4
    /\ ValidDate(IntOf(Split(date_str, "/")[3]), IntOf(Split(date_str, "/")[2]),
                 IntOf(Split(date_str, "/")[1]))

\* the reply to a message whose parse aborts
AbortReply(e) ==
    IF e.handler = "handle_text_message"
    THEN IF NoAmount(e.input[1]) THEN <<Part("nominal tidak ditemukan")>> ELSE <<>>
    ELSE IF Len(e.input) < 2 THEN <<>>
    ELSE IF ~IsCalendarDate(e.input[1]) THEN <<Part("Format tanggal salah!")>>
    ELSE IF NoAmount(Join(Tail(e.input))) THEN <<Part("nominal tidak ditemukan")>>
    ELSE <<>>

\* C21: a message without an amount, or an /add_past message whose date
\* argument is malformed or not a date of the calendar, is answered with the
\* error reply of its case, and add_transaction is not called for it
C21_AbortReplies ==
    \A i \in DOMAIN replies :
        AbortReply(replies[i]) # <<>>
            => /\ replies[i].response = AbortReply(replies[i])
               /\ replies[i].calls = 0

\* the part of C21 about the ledger: no call of add_transaction, no record
C21_AbortKeepsLedger ==
    \A i \in DOMAIN replies :
        AbortReply(replies[i]) # <<>>
            => /\ replies[i].calls = 0
               /\ replies[i].transaction = None

IsSaved(annotation) ==
    /\ Len(annotation) = 2
    /\ annotation[1] = Part("Tersimpan ke Google Sheets!")
    /\ annotation[2].part = "Saldo Terkini"

\* C22: the reply to a message that parses to a record is the formatted
\* record followed by exactly one status: saved when add_transaction
\* returned True, failed when the manager is connected and add_transaction
\* returned False, not configured when the manager is not connected
C22_OneAnnotation ==
    \A i \in DOMAIN replies :
        replies[i].transaction # None
            => /\ Len(replies[i].response) >= 2
               /\ replies[i].response[1].part = "message"
               /\ replies[i].response[1].description = replies[i].transaction.description
               /\ replies[i].response[1].amount = Whole(replies[i].transaction.amount)
               /\ replies[i].response[1].category = replies[i].transaction.category
               /\ IF replies[i].saved_to_sheets
                  THEN IsSaved(Tail(replies[i].response))
                  ELSE IF connected
                  THEN Tail(replies[i].response) = <<Part("Gagal menyimpan ke Google Sheets.")>>
                  ELSE Tail(replies[i].response) = <<Part("Google Sheets belum dikonfigurasi")>>

\* one message was saved and another one failed to be saved
C22_Witness ==
    /\ \E i \in DOMAIN replies :
          replies[i].transaction # None /\ replies[i].saved_to_sheets
    /\ \E i \in DOMAIN replies :
          replies[i].transaction # None /\ ~replies[i].saved_to_sheets /\ connected

\* add_transaction returns in this step
AddTransactionReturns(h) ==
    \/ hpc[h] = "append_row" /\ hpc'[h] # "append_row"
    \/ hpc[h] = "idle" /\ hpc'[h] = "return"

\* C23: add_transaction returns a boolean and nothing else; False leaves
\* the sheet as it was, which is the case when the manager is not connected
\* and when a step fails; True is returned only with the row appended
C23_ReturnsAfterAppend ==
    [][\A h \in Handlers :
          AddTransactionReturns(h)
              => /\ hvar'[h].saved_to_sheets \in BOOLEAN
                 /\ ~connected => ~hvar'[h].saved_to_sheets
                 /\ ~hvar'[h].saved_to_sheets => sheet' = sheet
                 /\ hvar'[h].saved_to_sheets
                       => /\ Len(sheet') = Len(sheet) + 1
                          /\ SubSeq(sheet', 1, Len(sheet)) = sheet
                          /\ sheet'[Len(sheet')][6] = hvar[h].transaction.description]_vars

\* add_transaction returned False with the manager connected
C23_Witness ==
    \E h \in Handlers :
        /\ hpc[h] = "return"
        /\ connected
        /\ ~hvar[h].saved_to_sheets
        /\ hvar[h].calls = 1

\* h appends its row in this step
Appends(h) == hpc[h] = "append_row" /\ hpc'[h] # "append_row" /\ sheet' # sheet

\* C24: the appended row has a negative amount and the label Pengeluaran
\* exactly for an expense, a positive amount and the label Pemasukan
\* exactly for income, and the message shows - for an expense and + for
\* income
C24_SignAndLabel ==
    [][\A h \in Handlers :
          Appends(h)
              => /\ hvar[h].transaction.transaction_type \in {"income", "expense"}
                 /\ sheet'[Len(sheet')][5] # 0
                 /\ sheet'[Len(sheet')][5] < 0 <=> hvar[h].transaction.transaction_type = "expense"
                 /\ sheet'[Len(sheet')][5] > 0 <=> hvar[h].transaction.transaction_type = "income"
                 /\ sheet'[Len(sheet')][3] = "Pemasukan" <=> hvar[h].transaction.transaction_type = "income"
                 /\ sheet'[Len(sheet')][3] = "Pengeluaran" <=> hvar[h].transaction.transaction_type = "expense"
                 /\ hvar[h].handler # "add_transaction"
                       => /\ hvar[h].response[1].sign = "+" <=> hvar[h].transaction.transaction_type = "income"
                          /\ hvar[h].response[1].sign = "-" <=> hvar[h].transaction.transaction_type = "expense"]_vars

\* an expense and an income have been appended and answered
C24_Witness ==
    /\ \E i \in DOMAIN DataRows(sheet) : DataRows(sheet)[i][5] < 0
    /\ \E i \in DOMAIN DataRows(sheet) : DataRows(sheet)[i][5] > 0
    /\ \E i \in DOMAIN replies :
          /\ replies[i].transaction # None
          /\ replies[i].saved_to_sheets
          /\ replies[i].response[1].sign = "-"

C26_RunningBalance ==
    \A i \in DOMAIN DataRows(sheet) :
        DataRows(sheet)[i][8] =
            (IF i = 1 THEN 0 ELSE DataRows(sheet)[i - 1][8]) + DataRows(sheet)[i][5]

----------------------------------------------------------------------------
(* main(): the handlers of the application and the dispatch of an update   *)

CommandHandler(command, callback) ==
    [kind |-> "CommandHandler", command |-> command, callback |-> callback]

\* MessageHandler(filters.TEXT & ~filters.COMMAND, callback)
MessageHandler(callback) ==
    [kind |-> "MessageHandler", command |-> <<>>, callback |-> callback]

\* the handlers in the order main() adds them
MainHandlers ==
    <<CommandHandler(<<"s","t","a","r","t">>, "start_command"),
      CommandHandler(<<"h","e","l","p">>, "help_command"),
      CommandHandler(<<"s","a","l","d","o">>, "saldo_command"),
      MessageHandler("handle_text_message")>>

\* the end of the run of word characters that starts at position 2
RECURSIVE CommandEnd(_, _)
CommandEnd(txt, p) ==
    IF p < Len(txt) /\ txt[p + 1] \in WordChars THEN CommandEnd(txt, p + 1) ELSE p

\* the bot command a message starts with, in lower case, or the empty text:
\* Telegram marks "/" followed by word characters at offset 0 as a
\* bot_command entity, which is what CommandHandler and filters.COMMAND test
Command(txt) ==
    IF Len(txt) >= 2 /\ txt[1] = "/" /\ txt[2] \in WordChars
    THEN Lower(SubSeq(txt, 2, CommandEnd(txt, 2)))
    ELSE <<>>

\* handler.check_update(update) for a text message
Matches(handler, txt) ==
    IF handler.kind = "CommandHandler" THEN Command(txt) = handler.command
    ELSE txt # <<>> /\ Command(txt) = <<>>

\* the callback of the first handler that accepts the update, "none" when
\* no handler does and the update is dropped without a reply
CallbackFor(handlers, txt) ==
    IF \E i \in DOMAIN handlers : Matches(handlers[i], txt)
    THEN handlers[Leftmost({i \in DOMAIN handlers : Matches(handlers[i], txt)})].callback
    ELSE "none"

\* the commands that start_command shows to the user
Advertised == {<<"a","d","d","_","p","a","s","t">>, <<"s","t","a","r","t">>, <<"h","e","l","p">>, <<"s","a","l","d","o">>}

\* words of the messages sent to the bot
MainWords ==
    {<<"/","s","t","a","r","t">>, <<"/","h","e","l","p">>, <<"/","s","a","l","d","o">>, <<"/","a","d","d","_","p","a","s","t">>,
     <<"1","0","/","0","1","/","2","0","2","6">>, <<"m","a","k","a","n">>}

\* the words of one message
MaxWords == 3

RECURSIVE WordSeqs(_)
WordSeqs(n) ==
    IF n = 0 THEN {<<>>}
    ELSE WordSeqs(n - 1) \cup {Append(ws, w) : ws \in {v \in WordSeqs(n - 1) : Len(v) = n - 1}, w \in MainWords}

MainTexts == {Join(ws) : ws \in WordSeqs(MaxWords) \ {<<>>}}

\* main() up to run_polling
Main ==
    /\ registered = <<>>
    /\ registered' = MainHandlers
    /\ UNCHANGED dispatched
    /\ UNCHANGED <<parserVars, botVars, apiVars>>

\* the application receives a text message and hands it to a callback
Dispatch ==
    /\ registered # <<>>
    /\ \E txt \in MainTexts :
          dispatched' = [text |-> txt, callback |-> CallbackFor(registered, txt)]
    /\ UNCHANGED registered
    /\ UNCHANGED <<parserVars, botVars, apiVars>>

InitMain ==
    /\ text = <<>>
    /\ custom_date = None
    /\ now = None
    /\ pc = "ready"
    /\ result = None
    /\ BotIdle
    /\ MainIdle
    /\ ApiIdle

NextMain ==
    \/ Main
    \/ Dispatch

SpecMain == InitMain /\ [][NextMain]_vars

StartsWith(txt, prefix) ==
    Len(txt) >= Len(prefix) /\ SubSeq(txt, 1, Len(prefix)) = prefix

\* C28: once main() has run, every advertised command has a CommandHandler,
\* and a message "/add_past DD/MM/YYYY ..." is handed to add_past_command
C28_AdvertisedRegistered ==
    registered # <<>> =>
        /\ \A c \in Advertised :
              \E i \in DOMAIN registered :
                  registered[i].kind = "CommandHandler" /\ registered[i].command = c
        /\ (dispatched # None /\ StartsWith(dispatched.text, <<"/","a","d","d","_","p","a","s","t"," ","1","0","/","0","1","/","2","0","2","6">>))
              => dispatched.callback = "add_past_command"

\* the part of C28 that holds: /start, /help and /saldo reach their callbacks
C28_OtherCommands ==
    (dispatched # None /\ Command(dispatched.text) \in {<<"s","t","a","r","t">>, <<"h","e","l","p">>, <<"s","a","l","d","o">>})
        => dispatched.callback \in {"start_command", "help_command", "saldo_command"}

----------------------------------------------------------------------------
(* dashboard.backend.api: the rate limiter and the middleware stack        *)

\* int(os.getenv('RATE_LIMIT_REQUESTS', '100')), set to a small value
RATE_LIMIT_REQUESTS == 2

\* int(os.getenv('RATE_LIMIT_WINDOW', '60')) seconds, set to a small value
RATE_LIMIT_WINDOW == 2

\* the seconds of one run
MaxTime == 3

\* the requests of one run
MaxRequests == 5

ClientIPs == {"10.0.0.1", "10.0.0.2"}

\* os.getenv('ENVIRONMENT', 'development') == 'production'
IS_PRODUCTION == FALSE

\* the timestamps that the cleaning step keeps
RECURSIVE Recent(_, _)
Recent(timestamps, t) ==
    IF timestamps = <<>> THEN <<>>
    ELSE IF t - Head(timestamps) < RATE_LIMIT_WINDOW
    THEN <<Head(timestamps)>> \o Recent(Tail(timestamps), t)
    ELSE Recent(Tail(timestamps), t)

\* a variant of check_rate_limit: the limit is compared with > instead
\* of >=
check_rate_limit_OneMore(timestamps, t) ==
    IF Len(Recent(timestamps, t)) > RATE_LIMIT_REQUESTS
    THEN <<FALSE, Recent(timestamps, t)>>
    ELSE <<TRUE, Append(Recent(timestamps, t), t)>>

\* check_rate_limit for a client whose list is timestamps, at time t: the
\* value returned and the list left in _rate_limit_store
check_rate_limit(timestamps, t) ==
    IF Len(Recent(timestamps, t)) >= RATE_LIMIT_REQUESTS
    THEN <<FALSE, Recent(timestamps, t)>>
    ELSE <<TRUE, Append(Recent(timestamps, t), t)>>

\* the headers that add_security_headers sets on the response of call_next
SecurityHeadersSet ==
    {"X-Frame-Options", "X-Content-Type-Options", "X-XSS-Protection",
     "Content-Security-Policy"}
    \cup (IF IS_PRODUCTION THEN {"Strict-Transport-Security"} ELSE {})

\* add_security_headers around the rest of the application
add_security_headers(response) ==
    [response EXCEPT !.headers = @ \cup SecurityHeadersSet]

\* rate_limit_middleware, the middleware added last and so the outermost:
\* its 429 response is returned without call_next
rate_limit_middleware(allowed, response) ==
    IF ~allowed THEN [status |-> 429, headers |-> {"content-type"}]
    ELSE add_security_headers(response)

\* what the routes answer: a result, or an HTTPException turned into a
\* JSON response by the exception handler inside the middleware stack
RouteResponses ==
    {[status |-> 200, headers |-> {"content-type"}],
     [status |-> 500, headers |-> {"content-type"}]}

\* time.time() moves on
Tick ==
    /\ clock < MaxTime
    /\ clock' = clock + 1
    /\ UNCHANGED <<rate_limit_store, admitted, responses>>
    /\ UNCHANGED <<parserVars, botVars, mainVars>>

\* one HTTP request through the middleware stack
Request(client_ip) ==
    /\ Len(responses) < MaxRequests
    /\ rate_limit_store' =
          [rate_limit_store EXCEPT ![client_ip] = check_rate_limit(@, clock)[2]]
    /\ admitted' =
          IF check_rate_limit(rate_limit_store[client_ip], clock)[1]
          THEN Append(admitted, [ip |-> client_ip, time |-> clock])
          ELSE admitted
    /\ \E response \in RouteResponses :
          responses' =
              Append(responses,
                     [ip |-> client_ip, time |-> clock,
                      response |-> rate_limit_middleware(
                          check_rate_limit(rate_limit_store[client_ip], clock)[1],
                          response)])
    /\ UNCHANGED clock
    /\ UNCHANGED <<parserVars, botVars, mainVars>>

InitApi ==
    /\ text = <<>>
    /\ custom_date = None
    /\ now = None
    /\ pc = "ready"
    /\ result = None
    /\ BotIdle
    /\ MainIdle
    /\ clock = 0
    /\ rate_limit_store = [ip \in ClientIPs |-> <<>>]
    /\ admitted = <<>>
    /\ responses = <<>>

NextApi ==
    \/ Tick
    \/ \E client_ip \in ClientIPs : Request(client_ip)

SpecApi == InitApi /\ [][NextApi]_vars

\* the admitted requests of one client with a time from s up to, not
\* including, s + RATE_LIMIT_WINDOW
AdmittedIn(ip, s) ==
    {i \in DOMAIN admitted :
        /\ admitted[i].ip = ip
        /\ s <= admitted[i].time
        /\ admitted[i].time < s + RATE_LIMIT_WINDOW}

\* the requests of one client admitted less than RATE_LIMIT_WINDOW ago
OwnRecent(ip) ==
    {i \in DOMAIN admitted :
        admitted[i].ip = ip /\ clock - admitted[i].time < RATE_LIMIT_WINDOW}

\* C29: a client has at most RATE_LIMIT_REQUESTS admitted requests in any
\* span of RATE_LIMIT_WINDOW seconds; whether a request is admitted depends
\* only on the client's own admitted requests; a rejected request leaves no
\* timestamp; a request changes no other client's list
C29_RateLimit ==
    /\ [](\A ip \in ClientIPs : \A s \in 0..MaxTime :
             Cardinality(AdmittedIn(ip, s)) <= RATE_LIMIT_REQUESTS)
    /\ [][Len(responses') = Len(responses) + 1 =>
            /\ responses'[Len(responses')].response.status # 429
                  <=> Cardinality(OwnRecent(responses'[Len(responses')].ip)) < RATE_LIMIT_REQUESTS
            /\ responses'[Len(responses')].response.status = 429
                  => /\ admitted' = admitted
                     /\ \A ip \in ClientIPs :
                           Len(rate_limit_store'[ip]) <= Len(rate_limit_store[ip])
            /\ \A ip \in ClientIPs \ {responses'[Len(responses')].ip} :
                  rate_limit_store'[ip] = rate_limit_store[ip]]_vars

\* one client has been rejected, then admitted again after the window, and
\* the other client was admitted while the first one was being rejected
C29_Witness ==
    \E i \in DOMAIN responses, j \in DOMAIN responses, k \in DOMAIN responses :
        /\ i < j
        /\ responses[i].ip = responses[j].ip
        /\ responses[i].response.status = 429
        /\ responses[j].response.status # 429
        /\ responses[k].ip # responses[i].ip
        /\ responses[k].time = responses[i].time
        /\ responses[k].response.status # 429

\* C30: every response sent carries the four security headers
C30_SecurityHeaders ==
    \A i \in DOMAIN responses :
        {"X-Frame-Options", "X-Content-Type-Options", "X-XSS-Protection",
         "Content-Security-Policy"} \subseteq responses[i].response.headers

\* the part of C30 that holds: the responses that come from call_next
C30_HeadersFromCallNext ==
    \A i \in DOMAIN responses :
        responses[i].response.status # 429
            => {"X-Frame-Options", "X-Content-Type-Options", "X-XSS-Protection",
                "Content-Security-Policy"} \subseteq responses[i].response.headers

====
